---- MODULE Spec2Model ----
(***************************************************************************)
(* Prompt Canvas: the working graph of the active sheet (nodes, edges),    *)
(* the handlers of Flow() that edit it, the attached-image sync effect,    *)
(* and the copy-path traversal with its template substitution.             *)
(***************************************************************************)
EXTENDS Integers, Sequences, FiniteSets, TLC

VARIABLES
  nodes,      \* useNodesState: the node list of the active sheet
  edges,      \* useEdgesState: the edge list of the active sheet
  now,        \* Date.now(), the clock the ids are made from
  allExpanded,\* useState(true): the expand-all toggle
  effectPending, \* the attached-image sync effect is scheduled
  lastOp,     \* the handler that ran last and its arguments
  prev,       \* nodes and edges immediately before that handler
  steps,      \* handler calls made since the sheet was set up
  pc,         \* position of the copy-path traversal
  queue,      \* copy path: BFS queue
  visited,    \* copy path: visited set
  orderedNodes, \* copy path: contributing nodes, in order
  clipboard,  \* text handed to navigator.clipboard.writeText
  sheets,     \* useState: the sheet list, each sheet with its saved graph
  activeSheetId, \* useState: the id of the active sheet
  timer,      \* the pending setTimeout of the write-back effect
  left,       \* per sheet, the graph it showed when it was last switched away
  builder,    \* TemplateBuilder: template, defaultValues and the memo params
  download,   \* the file exportCanvas handed to the browser, and what it was made of
  drawn,      \* CustomEdge: the geometry of the edge last rendered and its path
  due,        \* tenths of a second until the write-back timer is due
  saveTimer,  \* the pending setTimeout of the auto-save effect
  stored      \* the item of localStorage

vars == <<nodes, edges, now, allExpanded, effectPending, lastOp, prev, steps,
          pc, queue, visited, orderedNodes, clipboard,
          sheets, activeSheetId, timer, left, builder, download, drawn,
          due, saveTimer, stored>>

pathVars == <<pc, queue, visited, orderedNodes, clipboard>>

sheetVars == <<sheets, activeSheetId, timer, left>>

storeVars == <<due, saveTimer, stored>>

viewVars == <<drawn, storeVars>>

----------------------------------------------------------------------------
\* Bounds of the model

\* nodes of a sheet
MaxNodes == 3
\* nodes of a sheet in the runs that exercise the edge handlers
MaxGraphNodes == 2
MaxEdges == 3
MaxClock == 3
\* the outcomes of Math.floor(Math.random() * availableColors.length) drawn
MaxRandom == 0
\* how far right of a new node a chain of duplicates may reach, in offsets
MaxDupChain == 1
\* handler calls made on a sheet once it is set up
MaxSteps == 4
\* sheets of the canvas
MaxSheets == 3

\* length of a template typed into the builder, in characters
MaxLen == 6
\* pieces of a template put together in the builder
MaxTokens == 3

----------------------------------------------------------------------------
\* Generic sequence helpers (Array.prototype.filter / find / includes)

NoId == -1

Range(s) == {s[i] : i \in 1..Len(s)}

RECURSIVE FilterIdx(_, _, _)
\* the subsequence of s at the indices in keep, order preserved
FilterIdx(s, keep, i) ==
  IF i > Len(s) THEN <<>>
  ELSE (IF i \in keep THEN <<s[i]>> ELSE <<>>) \o FilterIdx(s, keep, i + 1)

NodeIds(nds) == {nds[i].id : i \in 1..Len(nds)}
EdgeIds(eds) == {eds[i].id : i \in 1..Len(eds)}

HasNode(nds, id) == \E i \in 1..Len(nds) : nds[i].id = id

\* nds.find((n) => n.id === id): the first match
FindNode(nds, id) ==
  nds[CHOOSE i \in 1..Len(nds) :
        nds[i].id = id /\ \A j \in 1..(i - 1) : nds[j].id # id]

----------------------------------------------------------------------------
\* Program constants

\* colorOptions, the palette duplicateNode draws from
colorOptions == <<"purple", "blue", "cyan", "green", "yellow", "orange", "pink">>

\* the fixed offset of a duplicate
DupOffset == 50

\* a string is the sequence of its characters; a values object is a function
\* from its own keys to strings
NoText == <<>>
NoValues == [k \in {} |-> NoText]

\* the content of the welcome node
welcomeContent ==
  << "#", " ", "P", "r", "o", "m", "p", "t", " ", "C", "a", "n", "v", "a",
     "s", "\n", "\n", "D", "o", "u", "b", "l", "e", "-", "c", "l", "i", "c",
     "k", " ", "t", "o", " ", "e", "d", "i", "t", ".", " ", "C", "o", "n",
     "n", "e", "c", "t", " ", "n", "o", "d", "e", "s", " ", "t", "o", " ",
     "s", "h", "o", "w", " ", "f", "l", "o", "w", ".", "\n", "\n", "*", "*",
     "T", "i", "p", "s", ":", "*", "*", "\n", "-", " ", "R", "i", "g", "h",
     "t", "-", "c", "l", "i", "c", "k", " ", "c", "a", "n", "v", "a", "s",
     " ", "t", "o", " ", "a", "d", "d", " ", "n", "o", "d", "e", "s", "\n",
     "-", " ", "D", "r", "a", "g", " ", "f", "r", "o", "m", " ", "h", "a",
     "n", "d", "l", "e", "s", " ", "t", "o", " ", "c", "o", "n", "n", "e",
     "c", "t", "\n", "-", " ", "D", "r", "a", "g", " ", "n", "o", "d", "e",
     "s", " ", "o", "n", "t", "o", " ", "g", "r", "o", "u", "p", "s", " ",
     "t", "o", " ", "o", "r", "g", "a", "n", "i", "z", "e", "\n", "-", " ",
     "C", "l", "i", "c", "k", " ", "c", "o", "l", "l", "a", "p", "s", "e",
     "d", " ", "g", "r", "o", "u", "p", "s", " ", "t", "o", " ", "e", "x",
     "p", "a", "n", "d" >>

\* the content addNode gives a prompt
promptContent ==
  << "Y", "o", "u", "r", " ", "p", "r", "o", "m", "p", "t", " ", "h", "e",
     "r", "e", ".", ".", "." >>

\* the template addNode gives a template node
defaultTemplate ==
  << "T", "a", "k", "e", " ", "t", "h", "e", " ", "f", "i", "r", "s", "t",
     " ", "i", "m", "a", "g", "e", " ", "o", "n", " ", "R", "o", "w", " ",
     "{", "{", "r", "o", "w", "}", "}", " ", "C", "o", "l", "u", "m", "n",
     " ", "{", "{", "c", "o", "l", "u", "m", "n", "}", "}", " ", "-", " ",
     "{", "{", "d", "e", "s", "c", "r", "i", "p", "t", "i", "o", "n", "}",
     "}" >>

\* nodeConfigs of addNode: data, style and isExpanded per type (no style:
\* 0 x 0; no content or no template: the empty string it defaults to)
nodeConfigs(type) ==
  CASE type = "prompt"   -> [w |-> 240, h |-> 140, isExpanded |-> TRUE,
                             content |-> promptContent, template |-> NoText]
    [] type = "template" -> [w |-> 320, h |-> 220, isExpanded |-> TRUE,
                             content |-> NoText, template |-> defaultTemplate]
    [] type = "group"    -> [w |-> 0,   h |-> 0,   isExpanded |-> FALSE,
                             content |-> NoText, template |-> NoText]

----------------------------------------------------------------------------
\* Edges

\* data?.active !== false: an edge without the flag counts as active
IsActive(e) == e.active # "false"

\* reactflow addEdge: the id is made of the two endpoints (the handles have
\* no id); an edge without a source or a target is not added, nor is a
\* connection that already exists
addEdge(params, eds) ==
  IF params.source = NoId \/ params.target = NoId THEN eds
  ELSE IF \E i \in 1..Len(eds) :
            eds[i].source = params.source /\ eds[i].target = params.target
         THEN eds
         ELSE Append(eds, [id |-> <<"rf", params.source, params.target>>,
                           source |-> params.source, target |-> params.target,
                           color |-> params.color, active |-> "unset"])

\* onConnect: the edge takes the colour of its source node
onConnect(nds, eds, s, t) ==
  LET edgeColor == IF HasNode(nds, s) THEN FindNode(nds, s).color ELSE "purple"
  IN addEdge([source |-> s, target |-> t, color |-> edgeColor], eds)

\* onReconnect: the edge keeps its id and gets the new endpoints
onReconnect(eds, oldId, s, t) ==
  [i \in 1..Len(eds) |->
     IF eds[i].id = oldId
       THEN [eds[i] EXCEPT !.source = s, !.target = t]
       ELSE eds[i]]

\* CustomEdge.handleDelete
handleDelete(eds, id) ==
  FilterIdx(eds, {i \in 1..Len(eds) : eds[i].id # id}, 1)

\* CustomEdge.handleToggleActive: id and target are the props of the
\* rendered edge
handleToggleActive(eds, id, target) ==
  [i \in 1..Len(eds) |->
     IF eds[i].target = target /\ eds[i].id # id
       THEN [eds[i] EXCEPT !.active = "false"]
       ELSE IF eds[i].id = id
         THEN [eds[i] EXCEPT !.active = "true"]
         ELSE eds[i]]

\* hasSiblings: the toggle button is rendered only for a branching target
hasSiblings(eds, target) ==
  Cardinality({i \in 1..Len(eds) : eds[i].target = target}) > 1

----------------------------------------------------------------------------
\* Nodes

\* deleteNode leaving the children with the group's id
deleteNodeNodesKeepingChildren(nds, nodeId) ==
  FilterIdx(nds, {i \in 1..Len(nds) : nds[i].id # nodeId}, 1)

\* deleteNode releasing the children without converting their position
deleteNodeNodesRelative(nds, nodeId) ==
  LET kept == FilterIdx(nds, {i \in 1..Len(nds) : nds[i].id # nodeId}, 1)
  IN [i \in 1..Len(kept) |->
        IF kept[i].parentNode = nodeId
          THEN [kept[i] EXCEPT !.parentNode = NoId]
          ELSE kept[i]]

\* deleteNode, the setNodes updater
deleteNodeNodes(nds, nodeId) ==
  LET kept == FilterIdx(nds, {i \in 1..Len(nds) : nds[i].id # nodeId}, 1)
  IN IF ~HasNode(nds, nodeId) THEN kept
     ELSE LET nodeToDelete == FindNode(nds, nodeId)
          IN [i \in 1..Len(kept) |->
                IF kept[i].parentNode = nodeId
                  THEN [kept[i] EXCEPT !.x = nodeToDelete.x + kept[i].x,
                                       !.y = nodeToDelete.y + kept[i].y,
                                       !.parentNode = NoId]
                  ELSE kept[i]]

\* deleteNode's edge filter with || for &&
deleteNodeEdgesEither(eds, nodeId) ==
  FilterIdx(eds, {i \in 1..Len(eds) :
                    eds[i].source # nodeId \/ eds[i].target # nodeId}, 1)

\* deleteNode's edge filter looking at the source only
deleteNodeEdgesOutgoing(eds, nodeId) ==
  FilterIdx(eds, {i \in 1..Len(eds) : eds[i].source # nodeId}, 1)

\* deleteNode, the setEdges updater
deleteNodeEdges(eds, nodeId) ==
  FilterIdx(eds, {i \in 1..Len(eds) :
                    eds[i].source # nodeId /\ eds[i].target # nodeId}, 1)

\* ungroupNodes
ungroupNodes(nds, groupId) ==
  IF ~HasNode(nds, groupId) THEN nds
  ELSE LET groupNode == FindNode(nds, groupId)
       IN [i \in 1..Len(nds) |->
             IF nds[i].parentNode = groupId
               THEN [nds[i] EXCEPT !.x = groupNode.x + nds[i].x,
                                   !.y = groupNode.y + nds[i].y,
                                   !.parentNode = NoId]
               ELSE nds[i]]

\* availableColors of duplicateNode
availableColors(currentColor) ==
  FilterIdx(colorOptions,
            {i \in 1..Len(colorOptions) : colorOptions[i] # currentColor}, 1)

\* duplicateNode: the colour drawn for the copy; rnd is
\* Math.floor(Math.random() * availableColors.length)
duplicateColor(nds, nodeId, rnd) ==
  IF ~HasNode(nds, nodeId) THEN "purple"
  ELSE availableColors(FindNode(nds, nodeId).color)[rnd + 1]

\* duplicateNode, the setNodes updater
duplicateNodeNodes(nds, nodeId, newNodeId, newColor) ==
  IF ~HasNode(nds, nodeId) THEN nds
  ELSE LET originalNode == FindNode(nds, nodeId)
       IN Append(nds, [originalNode EXCEPT !.id = newNodeId,
                                           !.x = originalNode.x + DupOffset,
                                           !.y = originalNode.y + DupOffset,
                                           !.color = newColor])

\* the suffix Math.random().toString(36) of a duplicated edge id: nine
\* base-36 digits, modelled as a serial number no other edge carries
FreshSerial(eds, k) ==
  LET used == {eds[i].id[3] : i \in {j \in 1..Len(eds) : eds[j].id[1] = "dup"}}
      top  == IF used = {} THEN 0 ELSE CHOOSE m \in used : \A u \in used : u <= m
  IN top + k

\* duplicateNode's edge filter looking at the source only
duplicateNodeEdgesSource(eds, nodeId, newNodeId, newColor, t) ==
  LET touching == FilterIdx(eds, {i \in 1..Len(eds) : eds[i].source = nodeId}, 1)
      newEdges == [k \in 1..Len(touching) |->
                     [touching[k] EXCEPT
                        !.id = <<"dup", t, FreshSerial(eds, k)>>,
                        !.source = newNodeId,
                        !.target = IF touching[k].target = nodeId
                                     THEN newNodeId ELSE touching[k].target,
                        !.color = newColor]]
  IN eds \o newEdges

\* duplicateNode, the setEdges updater
duplicateNodeEdges(eds, nodeId, newNodeId, newColor, t) ==
  LET touching == FilterIdx(eds, {i \in 1..Len(eds) :
                     eds[i].source = nodeId \/ eds[i].target = nodeId}, 1)
      newEdges == [k \in 1..Len(touching) |->
                     [touching[k] EXCEPT
                        !.id = <<"dup", t, FreshSerial(eds, k)>>,
                        !.source = IF touching[k].source = nodeId
                                     THEN newNodeId ELSE touching[k].source,
                        !.target = IF touching[k].target = nodeId
                                     THEN newNodeId ELSE touching[k].target,
                        !.color = newColor]]
  IN eds \o newEdges

\* updateNodeData for the content (Sidebar, save)
updateNodeContent(nds, nodeId, content) ==
  [i \in 1..Len(nds) |->
     IF nds[i].id = nodeId THEN [nds[i] EXCEPT !.content = content]
     ELSE nds[i]]

\* updateNodeData for attachedTo (Sidebar, attachment settings)
updateNodeAttachedTo(nds, nodeId, target) ==
  [i \in 1..Len(nds) |->
     IF nds[i].id = nodeId THEN [nds[i] EXCEPT !.attachedTo = target]
     ELSE nds[i]]

\* updateNodeData(nodeId, { anchorPoint })
updateNodeAnchorPoint(nds, nodeId, anchorPoint) ==
  [i \in 1..Len(nds) |->
     IF nds[i].id = nodeId THEN [nds[i] EXCEPT !.anchorPoint = anchorPoint]
     ELSE nds[i]]

----------------------------------------------------------------------------
\* Attached images

\* the buttons of the sidebar's Anchor Point
AnchorPoints == {"top-left", "top-right", "bottom-left", "bottom-right", "center"}

\* calculateAnchorPosition
calculateAnchorPosition(parentNode, anchorPoint) ==
  LET width  == IF parentNode.w # 0 THEN parentNode.w ELSE 280
      height == IF parentNode.h # 0 THEN parentNode.h ELSE 180
  IN CASE anchorPoint = "top-left" ->
            [x |-> parentNode.x - 100, y |-> parentNode.y - 100]
       [] anchorPoint = "bottom-left" ->
            [x |-> parentNode.x - 100, y |-> parentNode.y + height + 20]
       [] anchorPoint = "bottom-right" ->
            [x |-> parentNode.x + width + 20, y |-> parentNode.y + height]
       [] anchorPoint = "center" ->
            [x |-> parentNode.x + width \div 2, y |-> parentNode.y + height \div 2]
       [] OTHER ->
            [x |-> parentNode.x + width + 20, y |-> parentNode.y]

Abs(n) == IF n < 0 THEN -n ELSE n

\* the dependency of the sync effect: id and position of every node that is
\* not attached
Dep(nds) ==
  LET free == FilterIdx(nds, {i \in 1..Len(nds) : nds[i].attachedTo = NoId}, 1)
  IN [i \in 1..Len(free) |-> <<free[i].id, free[i].x, free[i].y>>]

\* the effect without its branch for a deleted parent
syncAttachedKeepsDeleted(nds) ==
  [i \in 1..Len(nds) |->
     IF nds[i].type = "image" /\ nds[i].attachedTo # NoId
          /\ HasNode(nds, nds[i].attachedTo)
       THEN LET anchorPos == calculateAnchorPosition(
                               FindNode(nds, nds[i].attachedTo),
                               nds[i].anchorPoint)
            IN IF Abs(nds[i].x - anchorPos.x) > 1
                  \/ Abs(nds[i].y - anchorPos.y) > 1
                 THEN [nds[i] EXCEPT !.x = anchorPos.x, !.y = anchorPos.y]
                 ELSE nds[i]
       ELSE nds[i]]

\* the effect "Sync attached image positions when parent nodes move"
syncAttached(nds) ==
  [i \in 1..Len(nds) |->
     IF nds[i].type = "image" /\ nds[i].attachedTo # NoId
       THEN IF ~HasNode(nds, nds[i].attachedTo)
              THEN [nds[i] EXCEPT !.attachedTo = NoId]
              ELSE LET anchorPos == calculateAnchorPosition(
                                      FindNode(nds, nds[i].attachedTo),
                                      nds[i].anchorPoint)
                   IN IF Abs(nds[i].x - anchorPos.x) > 1
                         \/ Abs(nds[i].y - anchorPos.y) > 1
                        THEN [nds[i] EXCEPT !.x = anchorPos.x, !.y = anchorPos.y]
                        ELSE nds[i]
       ELSE nds[i]]

----------------------------------------------------------------------------
\* Auto layout (toggleAllExpanded)

\* the first pass: every node gets isExpanded, an expanded group its size
updatedNodes(nds, newExpanded) ==
  [i \in 1..Len(nds) |->
     IF nds[i].type = "group"
       THEN IF newExpanded
              THEN [nds[i] EXCEPT !.isExpanded = newExpanded, !.w = 450, !.h = 350]
              ELSE [nds[i] EXCEPT !.isExpanded = newExpanded]
       ELSE [nds[i] EXCEPT !.isExpanded = newExpanded]]

\* every node that is not a group, children included
nonChildNodesAll(nds) ==
  FilterIdx(nds, {i \in 1..Len(nds) : nds[i].type # "group"}, 1)

nonChildNodes(nds) ==
  FilterIdx(nds, {i \in 1..Len(nds) :
                    nds[i].parentNode = NoId /\ nds[i].type # "group"}, 1)

groupNodes(nds) ==
  FilterIdx(nds, {i \in 1..Len(nds) : nds[i].type = "group"}, 1)

childNodes(nds) ==
  FilterIdx(nds, {i \in 1..Len(nds) : nds[i].parentNode # NoId}, 1)

\* outgoing[id] and incoming[id], built from every edge, in edge order
outgoing(eds, id) ==
  LET es == FilterIdx(eds, {i \in 1..Len(eds) : eds[i].source = id}, 1)
  IN [i \in 1..Len(es) |-> es[i].target]

incoming(eds, id) ==
  LET es == FilterIdx(eds, {i \in 1..Len(eds) : eds[i].target = id}, 1)
  IN [i \in 1..Len(es) |-> es[i].source]

layoutRoots(nds, eds) ==
  LET free == nonChildNodes(nds)
      rs == FilterIdx(free, {i \in 1..Len(free) : incoming(eds, free[i].id) = <<>>}, 1)
  IN [i \in 1..Len(rs) |-> rs[i].id]

RECURSIVE RowTargets(_, _, _)
\* the targets of the nodes of one row, in the order the two forEach visit them
RowTargets(row, eds, i) ==
  IF i > Len(row) THEN <<>>
  ELSE outgoing(eds, row[i]) \o RowTargets(row, eds, i + 1)

RECURSIVE ProcessTargets(_, _, _, _)
\* a target is admitted when it is not visited and all its sources are
ProcessTargets(ts, eds, vis, next) ==
  IF ts = <<>> THEN [visited |-> vis, next |-> next]
  ELSE LET targetId == Head(ts)
           allSourcesVisited ==
             \A s \in Range(incoming(eds, targetId)) : s \in vis
       IN IF targetId \notin vis /\ allSourcesVisited
            THEN ProcessTargets(Tail(ts), eds, vis \cup {targetId},
                                Append(next, targetId))
            ELSE ProcessTargets(Tail(ts), eds, vis, next)

RECURSIVE BuildRows(_, _, _, _)
\* while (currentRow < rows.length)
BuildRows(rows, eds, vis, currentRow) ==
  IF currentRow > Len(rows) THEN [rows |-> rows, visited |-> vis]
  ELSE LET r == ProcessTargets(RowTargets(rows[currentRow], eds, 1), eds, vis, <<>>)
       IN BuildRows(IF r.next # <<>> THEN Append(rows, r.next) ELSE rows,
                    eds, r.visited, currentRow + 1)

\* the rows without the trailing rows of the nodes that were not visited
layoutRowsVisited(nds, eds) ==
  LET roots == layoutRoots(nds, eds)
  IN BuildRows(IF roots # <<>> THEN <<roots>> ELSE <<>>, eds, Range(roots), 1).rows

\* rows of node ids: roots, breadth-first rows, then one row per free node
\* that was not visited
layoutRows(nds, eds) ==
  LET roots == layoutRoots(nds, eds)
      bfs == BuildRows(IF roots # <<>> THEN <<roots>> ELSE <<>>, eds,
                       Range(roots), 1)
      free == nonChildNodes(nds)
      rest == FilterIdx(free, {i \in 1..Len(free) : free[i].id \notin bfs.visited}, 1)
  IN bfs.rows \o [i \in 1..Len(rest) |-> <<rest[i].id>>]

getNodeSize(node, newExpanded) ==
  IF ~newExpanded THEN [width |-> 200, height |-> 50]
  ELSE IF node.type = "group" THEN [width |-> 450, height |-> 350]
  ELSE IF node.type = "template" THEN [width |-> 320, height |-> 220]
  ELSE [width |-> 280, height |-> 180]

verticalPadding(newExpanded) == IF newExpanded THEN 80 ELSE 40
horizontalPadding(newExpanded) == IF newExpanded THEN 40 ELSE 20

\* the flag written on the group and on the nodes inside it
toggleGroupEditModeWithChildren(nds, id, isEditMode) ==
  [i \in 1..Len(nds) |->
     IF nds[i].id = id \/ nds[i].parentNode = id
       THEN [nds[i] EXCEPT !.isEditMode = isEditMode]
       ELSE nds[i]]

\* handleToggleGroupEditMode
toggleGroupEditMode(nds, id, isEditMode) ==
  [i \in 1..Len(nds) |->
     IF nds[i].id = id THEN [nds[i] EXCEPT !.isEditMode = isEditMode]
     ELSE nds[i]]

\* nodeMap[id]: the last free node with that id
LastNode(nds, id) ==
  nds[CHOOSE i \in 1..Len(nds) :
        nds[i].id = id /\ \A j \in (i + 1)..Len(nds) : nds[j].id # id]

\* rowNodeIds.map((id) => nodeMap[id]).filter(Boolean)
rowNodesOf(rowNodeIds, free) ==
  LET present == FilterIdx(rowNodeIds,
                   {i \in 1..Len(rowNodeIds) : HasNode(free, rowNodeIds[i])}, 1)
  IN [i \in 1..Len(present) |-> LastNode(free, present[i])]

RECURSIVE SumWidth(_, _, _)
SumWidth(rowNodes, newExpanded, i) ==
  IF i > Len(rowNodes) THEN 0
  ELSE getNodeSize(rowNodes[i], newExpanded).width
         + SumWidth(rowNodes, newExpanded, i + 1)

RECURSIVE MaxHeight(_, _, _)
MaxHeight(rowNodes, newExpanded, i) ==
  IF i > Len(rowNodes) THEN 0
  ELSE LET hh == getNodeSize(rowNodes[i], newExpanded).height
           mm == MaxHeight(rowNodes, newExpanded, i + 1)
       IN IF hh > mm THEN hh ELSE mm

\* one row placed from the centre line to the right
placeRowFromCentre(rowNodes, currentY, newExpanded) ==
  LET xOf(i) == 250 + SumWidth(SubSeq(rowNodes, 1, i - 1), newExpanded, 1)
                  + (i - 1) * horizontalPadding(newExpanded)
  IN [i \in 1..Len(rowNodes) |->
        IF newExpanded /\ rowNodes[i].type # "group"
          THEN [rowNodes[i] EXCEPT !.x = xOf(i), !.y = currentY,
                  !.w = getNodeSize(rowNodes[i], newExpanded).width,
                  !.h = getNodeSize(rowNodes[i], newExpanded).height]
          ELSE [rowNodes[i] EXCEPT !.x = xOf(i), !.y = currentY]]

\* one row: left to right from 250 - totalWidth / 2
placeRow(rowNodes, currentY, newExpanded) ==
  LET totalWidth == SumWidth(rowNodes, newExpanded, 1)
                      + (Len(rowNodes) - 1) * horizontalPadding(newExpanded)
      startX == 250 - totalWidth \div 2
      xOf(i) == startX + SumWidth(SubSeq(rowNodes, 1, i - 1), newExpanded, 1)
                  + (i - 1) * horizontalPadding(newExpanded)
  IN [i \in 1..Len(rowNodes) |->
        IF newExpanded /\ rowNodes[i].type # "group"
          THEN [rowNodes[i] EXCEPT !.x = xOf(i), !.y = currentY,
                  !.w = getNodeSize(rowNodes[i], newExpanded).width,
                  !.h = getNodeSize(rowNodes[i], newExpanded).height]
          ELSE [rowNodes[i] EXCEPT !.x = xOf(i), !.y = currentY]]

RECURSIVE placeRows(_, _, _, _, _)
placeRows(rows, k, currentY, free, newExpanded) ==
  IF k > Len(rows) THEN [nodes |-> <<>>, y |-> currentY]
  ELSE LET rowNodes == rowNodesOf(rows[k], free)
       IN IF rowNodes = <<>>
            THEN placeRows(rows, k + 1, currentY, free, newExpanded)
            ELSE LET rest == placeRows(rows, k + 1,
                               currentY + MaxHeight(rowNodes, newExpanded, 1)
                                 + verticalPadding(newExpanded),
                               free, newExpanded)
                 IN [nodes |-> placeRow(rowNodes, currentY, newExpanded) \o rest.nodes,
                     y |-> rest.y]

\* the groups, one per row, below the free nodes
placeGroups(groups, currentY, newExpanded) ==
  [i \in 1..Len(groups) |->
     [groups[i] EXCEPT
        !.x = 250 - getNodeSize(groups[i], newExpanded).width \div 2,
        !.y = currentY + (i - 1) * (getNodeSize(groups[i], newExpanded).height
                                      + verticalPadding(newExpanded))]]

\* toggleAllExpanded, the setNodes updater
autoLayout(nds, eds, newExpanded) ==
  LET updated == updatedNodes(nds, newExpanded)
      free == nonChildNodes(updated)
      placed == placeRows(layoutRows(updated, eds), 1, 100, free, newExpanded)
  IN placed.nodes
       \o placeGroups(groupNodes(updated), placed.y, newExpanded)
       \o childNodes(updated)

----------------------------------------------------------------------------
\* Drag stop (onNodeDragStop)

Max(a, b) == IF a > b THEN a ELSE b

\* the dragged node has been moved by the host before the handler runs
movedNodes(nds, i, pos) ==
  [nds EXCEPT ![i].x = pos.x, ![i].y = pos.y]

\* a child is dragged: it leaves its group as soon as it reaches the margin
dragStopChildAtMargin(nds, i) ==
  LET node == nds[i]
  IN IF ~HasNode(nds, node.parentNode) THEN nds
     ELSE LET parentGroup == FindNode(nds, node.parentNode)
              groupWidth  == IF parentGroup.w # 0 THEN parentGroup.w ELSE 300
              groupHeight == IF parentGroup.h # 0 THEN parentGroup.h ELSE 200
              outside == \/ node.x <= -50
                         \/ node.x >= groupWidth + 20
                         \/ node.y <= -50
                         \/ node.y >= groupHeight + 20
          IN IF outside
               THEN [j \in 1..Len(nds) |->
                       IF nds[j].id = node.id
                         THEN [nds[j] EXCEPT !.parentNode = NoId,
                                             !.x = parentGroup.x + node.x,
                                             !.y = parentGroup.y + node.y]
                         ELSE nds[j]]
               ELSE nds

\* a child is dragged: it leaves its group when it is out of the bounds by
\* more than the margin
dragStopChild(nds, i) ==
  LET node == nds[i]
  IN IF ~HasNode(nds, node.parentNode) THEN nds
     ELSE LET parentGroup == FindNode(nds, node.parentNode)
              groupWidth  == IF parentGroup.w # 0 THEN parentGroup.w ELSE 300
              groupHeight == IF parentGroup.h # 0 THEN parentGroup.h ELSE 200
              outside == \/ node.x < -50
                         \/ node.x > groupWidth + 20
                         \/ node.y < -50
                         \/ node.y > groupHeight + 20
          IN IF outside
               THEN [j \in 1..Len(nds) |->
                       IF nds[j].id = node.id
                         THEN [nds[j] EXCEPT !.parentNode = NoId,
                                             !.x = parentGroup.x + node.x,
                                             !.y = parentGroup.y + node.y]
                         ELSE nds[j]]
               ELSE nds

\* a free node is dropped on a group and keeps its position on the canvas
dragStopFreeAbsolute(nds, i, groupId) ==
  LET node == nds[i]
      groupNode == FindNode(nds, groupId)
      expanded == [j \in 1..Len(nds) |->
                     IF nds[j].id = groupId /\ ~groupNode.isExpanded
                       THEN [nds[j] EXCEPT !.isExpanded = TRUE, !.w = 450, !.h = 350]
                       ELSE nds[j]]
  IN [j \in 1..Len(expanded) |->
        IF expanded[j].id = node.id
          THEN [expanded[j] EXCEPT !.x = Max(20, node.x),
                                   !.y = Max(60, node.y),
                                   !.parentNode = groupId]
          ELSE expanded[j]]

\* a free node is dropped on the group intersectingNodes[0]
dragStopFree(nds, i, groupId) ==
  LET node == nds[i]
      groupNode == FindNode(nds, groupId)
      expanded == [j \in 1..Len(nds) |->
                     IF nds[j].id = groupId /\ ~groupNode.isExpanded
                       THEN [nds[j] EXCEPT !.isExpanded = TRUE, !.w = 450, !.h = 350]
                       ELSE nds[j]]
  IN [j \in 1..Len(expanded) |->
        IF expanded[j].id = node.id
          THEN [expanded[j] EXCEPT !.x = Max(20, node.x - groupNode.x),
                                   !.y = Max(60, node.y - groupNode.y),
                                   !.parentNode = groupId]
          ELSE expanded[j]]

\* onNodeDragStop; hit is intersectingNodes[0] or NoId when no group is hit
onNodeDragStop(nds, i, hit) ==
  IF nds[i].type = "group" THEN nds
  ELSE IF nds[i].parentNode # NoId THEN dragStopChild(nds, i)
  ELSE IF hit # NoId THEN dragStopFree(nds, i, hit)
  ELSE nds

----------------------------------------------------------------------------
\* Strings

\* the white space String.prototype.trim removes (the characters of it that
\* the texts of the model can hold)
Whitespace == {" ", "\t", "\n", "\f", "\r"}

\* \w of a regular expression
WordChars ==
  { "a", "b", "c", "d", "e", "f", "g", "h", "i", "j", "k", "l", "m", "n",
    "o", "p", "q", "r", "s", "t", "u", "v", "w", "x", "y", "z", "A", "B",
    "C", "D", "E", "F", "G", "H", "I", "J", "K", "L", "M", "N", "O", "P",
    "Q", "R", "S", "T", "U", "V", "W", "X", "Y", "Z", "0", "1", "2", "3",
    "4", "5", "6", "7", "8", "9", "_" }

RECURSIVE trimStart(_)
trimStart(s) ==
  IF s # <<>> /\ Head(s) \in Whitespace THEN trimStart(Tail(s)) ELSE s

RECURSIVE trimEnd(_)
trimEnd(s) ==
  IF s # <<>> /\ s[Len(s)] \in Whitespace
    THEN trimEnd(SubSeq(s, 1, Len(s) - 1)) ELSE s

\* String.prototype.trim
trim(s) == trimEnd(trimStart(s))

RECURSIVE join(_, _)
\* Array.prototype.join
join(list, sep) ==
  IF list = <<>> THEN <<>>
  ELSE IF Len(list) = 1 THEN list[1]
  ELSE list[1] \o sep \o join(Tail(list), sep)

\* the methods every object inherits from Object.prototype
ObjectPrototype ==
  { <<"c", "o", "n", "s", "t", "r", "u", "c", "t", "o", "r">>,
     <<"t", "o", "S", "t", "r", "i", "n", "g">>,
     <<"t", "o", "L", "o", "c", "a", "l", "e", "S", "t", "r", "i", "n", "g">>,
     <<"v", "a", "l", "u", "e", "O", "f">>,
     <<"h", "a", "s", "O", "w", "n", "P", "r", "o", "p", "e", "r", "t", "y">>,
     <<"i", "s", "P", "r", "o", "t", "o", "t", "y", "p", "e", "O", "f">>,
     <<"p", "r", "o", "p", "e", "r", "t", "y", "I", "s", "E", "n", "u", "m",
         "e", "r", "a", "b", "l", "e">> }

\* the name of an inherited method as a function: constructor is Object
builtinName(key) ==
  IF key = <<"c", "o", "n", "s", "t", "r", "u", "c", "t", "o", "r">>
    THEN <<"O", "b", "j", "e", "c", "t">> ELSE key

\* values[key]: an own property, else an inherited one, else undefined
Get(values, key) ==
  IF key \in DOMAIN values THEN [kind |-> "string", text |-> values[key]]
  ELSE IF key \in ObjectPrototype
    THEN [kind |-> "function", text |-> builtinName(key)]
  ELSE [kind |-> "undefined", text |-> NoText]

\* ToBoolean, as || applies it
Truthy(v) ==
  CASE v.kind = "string"    -> v.text # <<>>
    [] v.kind = "function"  -> TRUE
    [] v.kind = "undefined" -> FALSE

\* ToString of what the replace callback returns
StringOf(v) ==
  IF v.kind = "function"
    THEN <<"f", "u", "n", "c", "t", "i", "o", "n", " ">>
         \o v.text \o <<"(", ")", " ", "{", " ", "[", "n", "a", "t", "i", "v", "e", " ", "c",
         "o", "d", "e", "]", " ", "}">>
    ELSE v.text

RECURSIVE wordRun(_, _)
\* how many word characters s holds from position i on
wordRun(s, i) ==
  IF i <= Len(s) /\ s[i] \in WordChars THEN 1 + wordRun(s, i + 1) ELSE 0

\* /\{\{(\w+)\}\}/ tried at position i: the length of the name it captures,
\* 0 when it does not match there
matchAt(s, i) ==
  IF i + 1 <= Len(s) /\ s[i] = "{" /\ s[i + 1] = "{"
    THEN LET n == wordRun(s, i + 2)
         IN IF n >= 1 /\ i + n + 3 <= Len(s)
                 /\ s[i + n + 2] = "}" /\ s[i + n + 3] = "}"
              THEN n ELSE 0
    ELSE 0

\* (_, key) => values[key] || key
replacement(values, key) ==
  IF Truthy(Get(values, key)) THEN StringOf(Get(values, key)) ELSE key

RECURSIVE replaceAll(_, _, _)
\* template.replace(/\{\{(\w+)\}\}/g, ...): the matches are taken from left
\* to right and do not overlap
replaceAll(s, values, i) ==
  IF i > Len(s) THEN <<>>
  ELSE LET n == matchAt(s, i)
       IN IF n > 0
            THEN replacement(values, SubSeq(s, i + 2, i + n + 1))
                   \o replaceAll(s, values, i + n + 4)
            ELSE <<s[i]>> \o replaceAll(s, values, i + 1)

\* the filled prompt of a template node
render(template, values) == replaceAll(template, values, 1)

----------------------------------------------------------------------------
\* Template builder (TemplateBuilder.jsx)

RECURSIVE extractParamsRepeats(_, _, _)
\* extractParams without the params.includes test
extractParamsRepeats(s, i, params) ==
  IF i > Len(s) THEN params
  ELSE LET n == matchAt(s, i)
       IN IF n > 0
            THEN extractParamsRepeats(s, i + n + 4,
                                      Append(params, SubSeq(s, i + 2, i + n + 1)))
            ELSE extractParamsRepeats(s, i + 1, params)

RECURSIVE extractParams(_, _, _)
\* extractParams: the regex.exec loop from position i on, params so far
extractParams(s, i, params) ==
  IF i > Len(s) THEN params
  ELSE LET n == matchAt(s, i)
           name == SubSeq(s, i + 2, i + n + 1)
       IN IF n > 0
            THEN extractParams(s, i + n + 4,
                               IF name \in Range(params) THEN params
                               ELSE Append(params, name))
            ELSE extractParams(s, i + 1, params)

\* { ...prev, [param]: value }
withValue(values, param, value) ==
  [k \in DOMAIN values \cup {param} |-> IF k = param THEN value ELSE values[k]]

----------------------------------------------------------------------------
\* Path roots (the memo nodesWithChildren)

hasOutgoing(eds) == {e.source : e \in Range(eds)}
hasIncoming(eds) == {e.target : e \in Range(eds)}

\* [...hasOutgoing].filter((id) => !hasIncoming.has(id))
pathRoots(eds) == {id \in hasOutgoing(eds) : id \notin hasIncoming(eds)}

\* data.isPathRoot of a node
isPathRoot(node, eds) == node.id \in pathRoots(eds) /\ node.type # "group"

----------------------------------------------------------------------------

\* Copy path (copyAllConnected, copyPathFromNode)

\* the traversal following every edge, whatever its flag
everyEdge(eds) == eds

activeEdges(eds) == FilterIdx(eds, {i \in 1..Len(eds) : IsActive(eds[i])}, 1)

\* adjacency[id] || []: the targets of the active edges out of id
adjacency(eds, id) ==
  LET es == FilterIdx(activeEdges(eds),
              {i \in 1..Len(activeEdges(eds)) : activeEdges(eds)[i].source = id}, 1)
  IN [i \in 1..Len(es) |-> es[i].target]

hasIncomingActive(eds) == {e.target : e \in Range(activeEdges(eds))}
hasOutgoingActive(eds) == {e.source : e \in Range(activeEdges(eds))}

\* roots, as ids: the queue is seeded with roots.map((n) => n.id)
copyRoots(nds, eds) ==
  LET rs == FilterIdx(nds, {i \in 1..Len(nds) :
                /\ nds[i].type # "group"
                /\ nds[i].id \in hasOutgoingActive(eds)
                /\ nds[i].id \notin hasIncomingActive(eds)}, 1)
  IN [i \in 1..Len(rs) |-> rs[i].id]

\* one iteration without the test of the dequeued id against visited
bfsStepRevisit(st, nds, eds) ==
  LET nodeId == Head(st.queue)
      vis == st.visited \cup {nodeId}
      connected == adjacency(eds, nodeId)
      pushed == FilterIdx(connected,
                  {i \in 1..Len(connected) : connected[i] \notin vis}, 1)
  IN [queue |-> Tail(st.queue) \o pushed,
      visited |-> vis,
      orderedNodes |->
        IF HasNode(nds, nodeId) /\ FindNode(nds, nodeId).type # "group"
          THEN Append(st.orderedNodes, FindNode(nds, nodeId))
          ELSE st.orderedNodes]

\* one iteration of while (queue.length > 0)
bfsStep(st, nds, eds) ==
  LET nodeId == Head(st.queue)
      vis == st.visited \cup {nodeId}
      connected == adjacency(eds, nodeId)
      pushed == FilterIdx(connected,
                  {i \in 1..Len(connected) : connected[i] \notin vis}, 1)
  IN IF nodeId \in st.visited
       THEN [st EXCEPT !.queue = Tail(st.queue)]
       ELSE [queue |-> Tail(st.queue) \o pushed,
             visited |-> vis,
             orderedNodes |->
               IF HasNode(nds, nodeId) /\ FindNode(nds, nodeId).type # "group"
                 THEN Append(st.orderedNodes, FindNode(nds, nodeId))
                 ELSE st.orderedNodes]

\* what a node contributes to the combined prompt
contribution(node) ==
  IF node.type = "template" THEN render(node.template, node.values)
  ELSE node.content

\* the combined prompt without the filter
combinedPromptUnfiltered(ordered) ==
  join([i \in 1..Len(ordered) |-> contribution(ordered[i])], <<"\n", "\n">>)

\* orderedNodes.map(...).filter((content) => content.trim()).join("\n\n")
combinedPrompt(ordered) ==
  LET contents == [i \in 1..Len(ordered) |-> contribution(ordered[i])]
      kept == FilterIdx(contents,
                {i \in 1..Len(contents) : trim(contents[i]) # <<>>}, 1)
  IN join(kept, <<"\n", "\n">>)

----------------------------------------------------------------------------
\* Edge paths (CustomEdge, getSmartPath).  The coordinates handed in are
\* whole pixels; the numbers of a path are in twentieths of a pixel, so that
\* the halves, the 0.2, 0.25, 0.3 and 0.5 of the code are whole numbers.

\* Math.sqrt by bisection: exact on the squares, which are all the runs hand in
RECURSIVE RootBetween(_, _, _)
RootBetween(n, low, high) ==
  IF low = high THEN low
  ELSE LET mid == (low + high + 1) \div 2
       IN IF mid * mid <= n THEN RootBetween(n, mid, high)
          ELSE RootBetween(n, low, mid - 1)

Sqrt(n) == RootBetween(n, 0, n)

Min(a, b) == IF a < b THEN a ELSE b

Point(x, y) == [x |-> x, y |-> y]

\* a point given in pixels
Pixel(x, y) == Point(20 * x, 20 * y)

\* the if chain with the sameLevel test before the backwards test
curveKindLevelFirst(deltaX, deltaY, distance, sourcePosition, targetPosition) ==
  LET isBackwards == /\ sourcePosition = "bottom"
                     /\ targetPosition = "top"
                     /\ deltaY < 0
      isSameLevel == Abs(deltaY) < 50
      isVeryClose == distance < 100
  IN IF isVeryClose THEN "veryClose"
     ELSE IF isSameLevel THEN "sameLevel"
     ELSE IF isBackwards THEN "backwards"
     ELSE "forward"

\* which return of getSmartPath is taken
curveKind(deltaX, deltaY, distance, sourcePosition, targetPosition) ==
  LET isBackwards == /\ sourcePosition = "bottom"
                     /\ targetPosition = "top"
                     /\ deltaY < 0
      isSameLevel == Abs(deltaY) < 50
      isVeryClose == distance < 100
  IN IF isVeryClose THEN "veryClose"
     ELSE IF isBackwards THEN "backwards"
     ELSE IF isSameLevel THEN "sameLevel"
     ELSE "forward"

\* the path as the sequence of its commands, each with its points
getSmartPath(sourceX, sourceY, targetX, targetY, sourcePosition, targetPosition) ==
  LET deltaX == targetX - sourceX
      deltaY == targetY - sourceY
      distance == Sqrt(deltaX * deltaX + deltaY * deltaY)
      kind == curveKind(deltaX, deltaY, distance, sourcePosition, targetPosition)
      source == Pixel(sourceX, sourceY)
      target == Pixel(targetX, targetY)
      move == [cmd |-> "M", points |-> <<source>>]
  IN CASE kind = "veryClose" ->
            LET midX == 10 * (sourceX + targetX)
                midY == 10 * (sourceY + targetY)
                offset == Max(20 * 30, 6 * distance)
                curveX == midX + (IF deltaX > 0 THEN -offset ELSE offset)
            IN <<move, [cmd |-> "Q", points |-> <<Point(curveX, midY), target>>]>>
       [] kind = "backwards" ->
            LET absDistance == Abs(deltaY)
                horizontalOffset == Max(20 * 80, Min(20 * 150, 10 * absDistance))
                padding == Max(20 * 40, 4 * absDistance)
                routeRight == deltaX >= 0
                sideX == IF routeRight
                           THEN 20 * Max(sourceX, targetX) + horizontalOffset
                           ELSE 20 * Min(sourceX, targetX) - horizontalOffset
            IN <<move,
                 [cmd |-> "C",
                  points |-> <<Point(source.x, source.y + padding),
                               Point(sideX, source.y + padding),
                               Point(sideX, 10 * (sourceY + targetY))>>],
                 [cmd |-> "C",
                  points |-> <<Point(sideX, target.y - padding),
                               Point(target.x, target.y - padding),
                               target>>]>>
       [] kind = "sameLevel" ->
            LET arcHeight == Max(20 * 60, 6 * Abs(deltaX))
                midX == 10 * (sourceX + targetX)
                arcY == 20 * Max(sourceY, targetY) + arcHeight
            IN <<move, [cmd |-> "Q", points |-> <<Point(midX, arcY), target>>]>>
       [] OTHER ->
            LET curvature == Min(5 * distance, 20 * 60)
            IN <<move,
                 [cmd |-> "C",
                  points |-> <<Point(source.x, source.y + curvature),
                               Point(target.x, target.y - curvature),
                               target>>]>>

----------------------------------------------------------------------------

\* Initial sheet

defaultNodes ==
  << [id |-> 0, type |-> "prompt", x |-> 250, y |-> 100, w |-> 280, h |-> 180,
      parentNode |-> NoId, attachedTo |-> NoId, anchorPoint |-> "top-right",
      isExpanded |-> TRUE, isEditMode |-> FALSE, color |-> "purple",
      content |-> welcomeContent, template |-> NoText, values |-> NoValues] >>

defaultEdges == <<>>

NoOp == [op |-> "init", id |-> NoId, a |-> NoId, b |-> NoId, hit |-> NoId]

IdleInit ==
  /\ pc = "idle"
  /\ queue = <<>>
  /\ visited = {}
  /\ orderedNodes = <<>>
  /\ clipboard = <<>>

\* the id of the sheet a fresh start creates ("sheet-1")
FirstSheet == 0

\* `Sheet ${n}`
SheetName(n) == <<"Sheet", n>>

\* what the user types into the tab of a sheet that is renamed
TypedName == <<"Notes">>

\* loadSheetsFromStorage with nothing stored
initialSheets ==
  <<[id |-> FirstSheet, name |-> SheetName(1),
     nodes |-> defaultNodes, edges |-> defaultEdges]>>

\* the closure of the write-back timer: the render's nodes, edges and
\* activeSheetId
Timer(sheetId, nds, eds) ==
  [pending |-> TRUE, sheetId |-> sheetId, nodes |-> nds, edges |-> eds]

NoTimer == [pending |-> FALSE, sheetId |-> NoId, nodes |-> <<>>, edges |-> <<>>]

\* the delays of the two setTimeout calls, in tenths of a second
WriteBackDelay == 1
SaveDelay == 5

\* the closure of the auto-save timer: the render's sheets and activeSheetId
SaveTimer(shs, id) ==
  [pending |-> TRUE, due |-> SaveDelay, sheets |-> shs, activeSheetId |-> id]

NoSaveTimer == [pending |-> FALSE, due |-> 0, sheets |-> <<>>, activeSheetId |-> NoId]

\* localStorage before the first save
NoStored == [made |-> FALSE, sheets |-> <<>>, activeSheetId |-> NoId]

\* no edge rendered yet
NoPath ==
  [made |-> FALSE, sourceX |-> 0, sourceY |-> 0, targetX |-> 0, targetY |-> 0,
   sourcePosition |-> "bottom", targetPosition |-> "top", path |-> <<>>]

\* the sides of a node a handle can sit on (Position)
Positions == {"top", "bottom", "left", "right"}

\* where the source handles of the rendered edges are
SourcePoints == {[x |-> 0, y |-> 0], [x |-> 15, y |-> 7]}

\* from the source handle to the target handle, to the right and down: on
\* the handle, 60, 100, 120, 125, 130, 250 and 300 pixels away, level with
\* the source, below it by less than 50, by 50 and by more
Reaches ==
  {<<0, 0>>, <<60, 0>>, <<0, 60>>, <<48, 36>>, <<100, 0>>, <<96, 28>>,
   <<60, 80>>, <<120, 0>>, <<0, 120>>, <<117, 44>>, <<120, 50>>,
   <<240, 70>>, <<180, 240>>, <<0, 300>>}

\* the same in the four directions
Deltas ==
  {<<sx * r[1], sy * r[2]>> : sx \in {-1, 1}, sy \in {-1, 1}, r \in Reaches}

\* nothing exported yet
NoDownload ==
  [made |-> FALSE, file |-> [nodes |-> <<>>, edges |-> <<>>, exportedAt |-> NoId],
   nodes |-> <<>>, edges |-> <<>>]

\* the builder as it opens and as handleSave and handleClose leave it
emptyBuilder == [template |-> NoText, defaultValues |-> NoValues, params |-> <<>>]

Init ==
  /\ sheets = initialSheets
  /\ activeSheetId = FirstSheet
  /\ timer = Timer(FirstSheet, defaultNodes, defaultEdges)
  /\ left = <<>>
  /\ builder = emptyBuilder
  /\ download = NoDownload
  /\ drawn = NoPath
  /\ due = WriteBackDelay
  /\ saveTimer = SaveTimer(initialSheets, FirstSheet)
  /\ stored = NoStored
  /\ nodes = defaultNodes
  /\ edges = defaultEdges
  /\ now = 1
  /\ allExpanded = TRUE
  /\ effectPending = FALSE
  /\ lastOp = NoOp
  /\ prev = [nodes |-> defaultNodes, edges |-> defaultEdges]
  /\ steps = 0
  /\ IdleInit

----------------------------------------------------------------------------
\* Inputs of the handlers

\* the entries of the context menu that are modelled: addNode(type, color)
AddChoices == {<<"prompt", "blue">>, <<"group", "blue">>}

\* project(contextMenu): where a new node is put
AddPosition == [x |-> 300, y |-> 200]

\* where a drag can end (snapGrid 16)
DragPositions == {[x |-> -64, y |-> 32], [x |-> 96, y |-> 96]}

\* where a drag ends when it probes the margins of an expanded group: 50
\* to the left and above, 20 beyond the 450x350 of the group to the right
\* and below
DropPositions ==
  {[x |-> 96, y |-> 96],
   [x |-> -51, y |-> 96], [x |-> -50, y |-> 96],
   [x |-> 470, y |-> 96], [x |-> 471, y |-> 96],
   [x |-> 96, y |-> -51], [x |-> 96, y |-> -50],
   [x |-> 96, y |-> 370], [x |-> 96, y |-> 371]}

\* where the drag of a free node or of a group ends: left of and above the
\* new groups, and right of and below them
FreeDrops == {[x |-> 96, y |-> 96], [x |-> 400, y |-> 300]}

\* how far Date.now() moves between two handler calls, in milliseconds
Ticks == {0, 1}

\* an id that names no node
UnknownId == 99

\* what the user types into the content field of the sidebar
Hello == <<"H", "e", "l", "l", "o">>
World == <<"W", "o", "r", "l", "d">>
Texts == {NoText, <<" ">>, Hello, World}

\* what the user types into the template builder: a template and the
\* default values of its parameters
HiName == <<"H", "i", " ", "{", "{", "n", "a", "m", "e", "}", "}">>
Name == <<"n", "a", "m", "e">>
Ada == <<"A", "d", "a">>
TextInputs == {[template |-> HiName, values |-> [k \in {Name} |-> Ada]]}

Alphabet == {"{", "}", "a", " "}

TypedTemplates == UNION {[1..n -> Alphabet] : n \in 0..MaxLen}

TypedValues ==
  {NoValues} \cup {[k \in {<<"a">>} |-> v] : v \in {NoText, <<"b">>}}

RenderInputs ==
  {[template |-> t, values |-> v] : t \in TypedTemplates, v \in TypedValues}
    \cup TextInputs
    \cup {[template |-> HiName, values |-> NoValues]}
    \cup { [template |-> <<"{", "{", "c", "o", "n", "s", "t", "r", "u", "c", "t", "o", "r", "}",
         "}">>,
          values |-> NoValues] }

\* what the user puts into the template field of the builder: up to
\* MaxTokens pieces, placeholders and loose characters
Tokens ==
  { <<"{", "{", "a", "}", "}">>, <<"{", "{", "b", "}", "}">>,
    <<"{">>, <<"}">>, <<"a">>, <<" ">> }

RECURSIVE Pieces(_)
Pieces(n) ==
  IF n = 0 THEN {<<>>}
  ELSE Pieces(n - 1) \cup {t \o k : t \in Pieces(n - 1), k \in Tokens}

BuilderTemplates == Pieces(MaxTokens)

\* what the user types as the default value of a parameter
BuilderValues == {NoText, <<"b">>}

\* PRESET_TEMPLATES, the entries that are modelled: Image Reference, Custom
presetTemplates == {defaultTemplate, NoText}

newNode(id, type, color, pos) ==
  [id |-> id, type |-> type, x |-> pos.x, y |-> pos.y,
   w |-> nodeConfigs(type).w, h |-> nodeConfigs(type).h,
   parentNode |-> NoId, attachedTo |-> NoId, anchorPoint |-> "top-right",
   isExpanded |-> nodeConfigs(type).isExpanded, isEditMode |-> FALSE,
   color |-> color, content |-> nodeConfigs(type).content,
   template |-> nodeConfigs(type).template, values |-> NoValues]

\* handleImageUpload: the node of an image that passed processImageFile
\* (a small image: the style is the minimum 150 x 150)
newImageNode(id, pos) ==
  [id |-> id, type |-> "image", x |-> pos.x, y |-> pos.y, w |-> 150, h |-> 150,
   parentNode |-> NoId, attachedTo |-> NoId, anchorPoint |-> "top-right",
   isExpanded |-> TRUE, isEditMode |-> FALSE, color |-> "purple",
   content |-> NoText, template |-> NoText, values |-> NoValues]

\* imageHandler.js
VALID_TYPES == {"image/png", "image/jpeg", "image/gif", "image/webp"}
MAX_FILE_SIZE == 5 * 1024 * 1024

\* a file as the upload sees it: whether there is one, its type and size,
\* whether FileReader reads it and Image decodes it, and the size of the
\* decoded picture
ImageFile(type, size, readable, decodable, width, height) ==
  [present |-> TRUE, type |-> type, size |-> size, readable |-> readable,
   decodable |-> decodable, width |-> width, height |-> height]

NoFile ==
  [present |-> FALSE, type |-> "", size |-> 0, readable |-> FALSE,
   decodable |-> FALSE, width |-> 0, height |-> 0]

\* the files handed to the upload: none, good ones of every type and shape,
\* one of exactly 5 MB, one byte more, other types, a file that cannot be
\* read and one that is no picture
UploadFiles ==
  <<NoFile,
    ImageFile("image/png", 2048, TRUE, TRUE, 100, 80),
    ImageFile("image/jpeg", MAX_FILE_SIZE, TRUE, TRUE, 600, 400),
    ImageFile("image/gif", 1024 * 1024, TRUE, TRUE, 400, 800),
    ImageFile("image/webp", 0, TRUE, TRUE, 1, 1),
    ImageFile("image/png", MAX_FILE_SIZE + 1, TRUE, TRUE, 600, 400),
    ImageFile("image/svg+xml", 2048, TRUE, TRUE, 100, 80),
    ImageFile("text/plain", 2048, TRUE, FALSE, 0, 0),
    ImageFile("", 2048, TRUE, TRUE, 100, 80),
    ImageFile("image/png", 2048, FALSE, FALSE, 0, 0),
    ImageFile("image/jpeg", 2048, TRUE, FALSE, 0, 0)>>

\* validateImage without the limit on the size
validateImageAnySize(file) ==
  IF ~file.present THEN [valid |-> FALSE, error |-> "No file provided"]
  ELSE IF file.type \notin VALID_TYPES
    THEN [valid |-> FALSE, error |-> "Invalid image type"]
  ELSE [valid |-> TRUE, error |-> ""]

\* validateImage
validateImage(file) ==
  IF ~file.present THEN [valid |-> FALSE, error |-> "No file provided"]
  ELSE IF file.type \notin VALID_TYPES
    THEN [valid |-> FALSE, error |-> "Invalid image type"]
  ELSE IF file.size > MAX_FILE_SIZE
    THEN [valid |-> FALSE, error |-> "File too large"]
  ELSE [valid |-> TRUE, error |-> ""]

\* processImageFile: the promise is rejected with an error or resolved with
\* the data of the picture
processImageFile(file) ==
  LET validation == validateImage(file)
  IN IF ~validation.valid
       THEN [resolved |-> FALSE, error |-> validation.error, width |-> 0, height |-> 0]
     ELSE IF ~file.readable
       THEN [resolved |-> FALSE, error |-> "Failed to read file", width |-> 0, height |-> 0]
     ELSE IF ~file.decodable
       THEN [resolved |-> FALSE, error |-> "Failed to load image", width |-> 0, height |-> 0]
     ELSE [resolved |-> TRUE, error |-> "", width |-> file.width, height |-> file.height]

\* handleImageUpload: the style of the node, the picture fitted into 300 x 300
imageStyle(imageData) ==
  LET width1  == IF imageData.width > 300 THEN 300 ELSE imageData.width
      height1 == IF imageData.width > 300
                   THEN (imageData.height * 300) \div imageData.width
                   ELSE imageData.height
      width2  == IF height1 > 300 THEN (width1 * 300) \div height1 ELSE width1
      height2 == IF height1 > 300 THEN 300 ELSE height1
  IN [w |-> Max(150, width2 + 24), h |-> Max(150, height2 + 60)]

\* handleImageUpload, the setNodes updater reached when the promise resolves
handleImageUpload(nds, file, id, pos) ==
  LET imageData == processImageFile(file)
  IN IF ~imageData.resolved THEN nds
     ELSE Append(nds, [newImageNode(id, pos) EXCEPT
                         !.w = imageStyle(imageData).w,
                         !.h = imageStyle(imageData).h])

\* createTemplateFromBuilder: the node of a template saved in the builder
newTemplateNode(id, pos, template, values) ==
  [id |-> id, type |-> "template", x |-> pos.x, y |-> pos.y, w |-> 320, h |-> 220,
   parentNode |-> NoId, attachedTo |-> NoId, anchorPoint |-> "top-right",
   isExpanded |-> TRUE, isEditMode |-> FALSE, color |-> "cyan",
   content |-> NoText, template |-> template, values |-> values]

\* updateNodeData for the colour: the node, and the edges that leave it
updateNodeColor(nds, nodeId, color) ==
  [i \in 1..Len(nds) |->
     IF nds[i].id = nodeId THEN [nds[i] EXCEPT !.color = color]
     ELSE nds[i]]

updateNodeColorEdges(eds, nodeId, color) ==
  [i \in 1..Len(eds) |->
     IF eds[i].source = nodeId THEN [eds[i] EXCEPT !.color = color]
     ELSE eds[i]]

\* JSON.stringify leaves out the members whose value is undefined: the
\* parentNode of a node outside every group, the active flag of an edge
\* that never got one
IsUndefined(k, v) ==
  IF k = "parentNode" THEN v = NoId
  ELSE IF k = "active" THEN v = "unset"
  ELSE FALSE

stringify(o) == [k \in {m \in DOMAIN o : ~IsUndefined(m, o[m])} |-> o[k]]

\* what the program reads from a parsed object: a member that is not there
\* reads as undefined
member(o, k) ==
  IF k \in DOMAIN o THEN o[k]
  ELSE IF k = "active" THEN "unset" ELSE NoId

parsed(o, keys) == [k \in keys |-> member(o, k)]

NodeKeys == DOMAIN defaultNodes[1]

EdgeKeys == {"id", "source", "target", "color", "active"}

\* exportCanvas: the text of the file
exportCanvas(nds, eds, t) ==
  [nodes |-> [i \in 1..Len(nds) |-> stringify(nds[i])],
   edges |-> [i \in 1..Len(eds) |-> stringify(eds[i])],
   exportedAt |-> t]

\* JSON.parse of an exported text, as importCanvas sees it: nodes and edges
\* are arrays, and an array is truthy also when it is empty
parsedExport(text) ==
  [parses |-> TRUE, hasNodes |-> TRUE, hasEdges |-> TRUE,
   nodes |-> [i \in 1..Len(text.nodes) |-> parsed(text.nodes[i], NodeKeys)],
   edges |-> [i \in 1..Len(text.edges) |-> parsed(text.edges[i], EdgeKeys)]]

\* importCanvas taking an empty array for a missing member
importNodesNonEmpty(nds, file) ==
  IF file.parses /\ file.hasNodes /\ file.nodes # <<>> THEN file.nodes ELSE nds

\* importCanvas, reader.onload: data.nodes and data.edges replace the nodes
\* and the edges, each if it is there; a text that JSON.parse rejects is
\* caught
importNodes(nds, file) ==
  IF file.parses /\ file.hasNodes THEN file.nodes ELSE nds

importEdges(eds, file) ==
  IF file.parses /\ file.hasEdges THEN file.edges ELSE eds

----------------------------------------------------------------------------
\* Actions

\* effects are flushed before the next event is handled, and a handler runs
\* to completion before the next one starts
EffectsIdle == ~effectPending /\ pc # "loop"

\* the sync effect is scheduled by a render in which its dependency changed;
\* a run that would return currentNodes unchanged is not a step
Schedules(old, new) == Dep(new) # Dep(old) /\ syncAttached(new) # new

Record(op, id, a, b) ==
  /\ lastOp' = [op |-> op, id |-> id, a |-> a, b |-> b, hit |-> NoId]
  /\ prev' = [nodes |-> nodes, edges |-> edges]

AddNode(c, dt) ==
  /\ EffectsIdle
  /\ now + dt <= MaxClock + 1
  /\ now' = now + dt
  /\ nodes' = Append(nodes, newNode(now, c[1], c[2], AddPosition))
  /\ Record("addNode", now, NoId, NoId)
  /\ UNCHANGED <<edges, allExpanded, pathVars>>
  /\ effectPending' = Schedules(nodes, nodes')

ImageUpload(dt) ==
  /\ EffectsIdle
  /\ now + dt <= MaxClock + 1
  /\ now' = now + dt
  /\ nodes' = Append(nodes, newImageNode(now, AddPosition))
  /\ Record("imageUpload", now, NoId, NoId)
  /\ UNCHANGED <<edges, allExpanded, pathVars>>
  /\ effectPending' = Schedules(nodes, nodes')

\* handleImageUpload with the k-th file; a rejected promise ends in the
\* catch, which alerts
HandleImageUpload(k, dt) ==
  /\ EffectsIdle
  /\ now + dt <= MaxClock + 1
  /\ now' = now + dt
  /\ nodes' = handleImageUpload(nodes, UploadFiles[k], now, AddPosition)
  /\ Record("handleImageUpload", now, k, NoId)
  /\ UNCHANGED <<edges, allExpanded, pathVars>>
  /\ effectPending' = Schedules(nodes, nodes')

Connect(s, t) ==
  /\ EffectsIdle
  /\ Len(edges) < MaxEdges
  /\ edges' = onConnect(nodes, edges, s, t)
  /\ Record("connect", NoId, s, t)
  /\ UNCHANGED <<nodes, now, allExpanded, effectPending, pathVars>>

Reconnect(i, s, t) ==
  /\ EffectsIdle
  /\ edges' = onReconnect(edges, edges[i].id, s, t)
  /\ Record("reconnect", NoId, i, NoId)
  /\ UNCHANGED <<nodes, now, allExpanded, effectPending, pathVars>>

DeleteEdge(i) ==
  /\ EffectsIdle
  /\ edges' = handleDelete(edges, edges[i].id)
  /\ Record("deleteEdge", NoId, i, NoId)
  /\ UNCHANGED <<nodes, now, allExpanded, effectPending, pathVars>>

SetActive(i) ==
  /\ EffectsIdle
  /\ hasSiblings(edges, edges[i].target)
  /\ edges' = handleToggleActive(edges, edges[i].id, edges[i].target)
  /\ Record("setActive", NoId, i, NoId)
  /\ UNCHANGED <<nodes, now, allExpanded, effectPending, pathVars>>

DuplicateNode(nodeId, rnd, dt) ==
  /\ EffectsIdle
  /\ now + dt <= MaxClock + 1
  /\ now' = now + dt
  /\ HasNode(nodes, nodeId) =>
       FindNode(nodes, nodeId).x + DupOffset
         <= AddPosition.x + MaxDupChain * DupOffset
  /\ LET newColor == duplicateColor(nodes, nodeId, rnd)
         newEdges == duplicateNodeEdges(edges, nodeId, now, newColor, now)
     IN /\ Len(newEdges) <= MaxEdges
        /\ nodes' = duplicateNodeNodes(nodes, nodeId, now, newColor)
        /\ edges' = newEdges
  /\ Record("duplicateNode", nodeId, now, rnd)
  /\ UNCHANGED <<allExpanded, pathVars>>
  /\ effectPending' = Schedules(nodes, nodes')

DeleteNode(nodeId) ==
  /\ EffectsIdle
  /\ nodes' = deleteNodeNodes(nodes, nodeId)
  /\ edges' = deleteNodeEdges(edges, nodeId)
  /\ Record("deleteNode", nodeId, NoId, NoId)
  /\ UNCHANGED <<now, allExpanded, pathVars>>
  /\ effectPending' = Schedules(nodes, nodes')

UngroupNodes(groupId) ==
  /\ EffectsIdle
  /\ nodes' = ungroupNodes(nodes, groupId)
  /\ Record("ungroupNodes", groupId, NoId, NoId)
  /\ UNCHANGED <<edges, now, allExpanded, pathVars>>
  /\ effectPending' = Schedules(nodes, nodes')

ToggleGroupEditMode(id, isEditMode) ==
  /\ EffectsIdle
  /\ nodes' = toggleGroupEditMode(nodes, id, isEditMode)
  /\ Record("toggleGroupEditMode", id, IF isEditMode THEN 1 ELSE 0, NoId)
  /\ UNCHANGED <<edges, now, allExpanded, pathVars>>
  /\ effectPending' = Schedules(nodes, nodes')

ToggleAllExpanded ==
  /\ EffectsIdle
  /\ allExpanded' = ~allExpanded
  /\ nodes' = autoLayout(nodes, edges, ~allExpanded)
  /\ Record("autoLayout", NoId, NoId, NoId)
  /\ UNCHANGED <<edges, now, pathVars>>
  /\ effectPending' = Schedules(nodes, nodes')

NodeDragStop(i, pos, hit) ==
  /\ EffectsIdle
  /\ nodes' = onNodeDragStop(movedNodes(nodes, i, pos), i, hit)
  /\ lastOp' = [op |-> "dragStop", id |-> nodes[i].id, a |-> pos.x, b |-> pos.y,
                hit |-> hit]
  /\ prev' = [nodes |-> nodes, edges |-> edges]
  /\ UNCHANGED <<edges, now, allExpanded, pathVars>>
  /\ effectPending' = Schedules(nodes, nodes')

\* Sidebar: attach an image to a node that is not an image, or detach it
Attach(i, target) ==
  /\ EffectsIdle
  /\ nodes[i].type = "image"
  /\ nodes' = updateNodeAttachedTo(nodes, nodes[i].id, target)
  /\ Record("attach", nodes[i].id, NoId, NoId)
  /\ UNCHANGED <<edges, now, allExpanded, pathVars>>
  /\ effectPending' = Schedules(nodes, nodes')

\* Sidebar: the anchor buttons, shown for an image that is attached
SetAnchorPoint(i, anchorPoint) ==
  /\ EffectsIdle
  /\ nodes[i].type = "image"
  /\ nodes[i].attachedTo # NoId
  /\ nodes' = updateNodeAnchorPoint(nodes, nodes[i].id, anchorPoint)
  /\ Record("anchorPoint", nodes[i].id, NoId, NoId)
  /\ UNCHANGED <<edges, now, allExpanded, pathVars>>
  /\ effectPending' = Schedules(nodes, nodes')

\* the sync effect runs after a render in which its dependency changed
SyncAttachedEffect ==
  /\ effectPending
  /\ nodes' = syncAttached(nodes)
  /\ effectPending' = Schedules(nodes, nodes')
  /\ Record("syncEffect", NoId, NoId, NoId)
  /\ UNCHANGED <<edges, now, allExpanded, pathVars>>

GroupIds(nds) == {nds[i].id : i \in {j \in 1..Len(nds) : nds[j].type = "group"}}

AttachTargets(nds, i) ==
  {nds[j].id : j \in {k \in 1..Len(nds) :
                        nds[k].id # nds[i].id /\ nds[k].type # "image"}}

\* Sidebar, save: the content of a node that is not a template
SidebarSave(i, text) ==
  /\ EffectsIdle
  /\ nodes[i].type # "template"
  /\ nodes' = updateNodeContent(nodes, nodes[i].id, text)
  /\ Record("sidebarSave", nodes[i].id, NoId, NoId)
  /\ UNCHANGED <<edges, now, allExpanded, pathVars>>
  /\ effectPending' = Schedules(nodes, nodes')

CreateTemplateFromBuilder(input, dt) ==
  /\ EffectsIdle
  /\ now + dt <= MaxClock + 1
  /\ now' = now + dt
  /\ nodes' = Append(nodes, newTemplateNode(now, AddPosition,
                                            input.template, input.values))
  /\ Record("createTemplate", now, NoId, NoId)
  /\ UNCHANGED <<edges, allExpanded, pathVars>>
  /\ effectPending' = Schedules(nodes, nodes')

\* updateNodeData(nodeId, {content})
UpdateNodeContent(nodeId, text) ==
  /\ EffectsIdle
  /\ nodes' = updateNodeContent(nodes, nodeId, text)
  /\ Record("updateNode", nodeId, NoId, NoId)
  /\ UNCHANGED <<edges, now, allExpanded, pathVars>>
  /\ effectPending' = Schedules(nodes, nodes')

\* updateNodeData(nodeId, {color})
UpdateNodeColor(nodeId, color) ==
  /\ EffectsIdle
  /\ nodes' = updateNodeColor(nodes, nodeId, color)
  /\ edges' = updateNodeColorEdges(edges, nodeId, color)
  /\ Record("updateNode", nodeId, NoId, NoId)
  /\ UNCHANGED <<now, allExpanded, pathVars>>
  /\ effectPending' = Schedules(nodes, nodes')

\* the edge that handleDelete has just removed: its buttons act once more
\* with the id and the target of the render before the removal
StaleEdge == prev.edges[lastOp.a]

IsStale ==
  IF lastOp.op = "deleteEdge" THEN StaleEdge.id \notin EdgeIds(edges) ELSE FALSE

StaleDelete ==
  /\ EffectsIdle
  /\ IsStale
  /\ edges' = handleDelete(edges, StaleEdge.id)
  /\ Record("staleDelete", NoId, NoId, NoId)
  /\ UNCHANGED <<nodes, now, allExpanded, effectPending, pathVars>>

StaleSetActive ==
  /\ EffectsIdle
  /\ IsStale
  /\ hasSiblings(prev.edges, StaleEdge.target)
  /\ edges' = handleToggleActive(edges, StaleEdge.id, StaleEdge.target)
  /\ Record("staleSetActive", NoId, NoId, NoId)
  /\ UNCHANGED <<nodes, now, allExpanded, effectPending, pathVars>>

\* the nodes and edges of an exported canvas
FileNodes == <<newNode(UnknownId, "prompt", "green", AddPosition)>>

FileEdges ==
  <<[id |-> <<"rf", UnknownId, UnknownId>>, source |-> UnknownId,
     target |-> UnknownId, color |-> "green", active |-> "unset"]>>

\* the files handed to importCanvas: one that is not JSON, and JSON texts
\* with and without the members nodes and edges
ImportFiles ==
  LET File(p, n, e) == [parses |-> p, hasNodes |-> n, hasEdges |-> e,
                        nodes |-> FileNodes, edges |-> FileEdges]
  IN <<File(FALSE, FALSE, FALSE), File(TRUE, FALSE, FALSE),
       File(TRUE, TRUE, FALSE), File(TRUE, FALSE, TRUE), File(TRUE, TRUE, TRUE)>>

\* importCanvas with the k-th file
ImportCanvas(k) ==
  /\ EffectsIdle
  /\ nodes' = importNodes(nodes, ImportFiles[k])
  /\ edges' = importEdges(edges, ImportFiles[k])
  /\ Record("importCanvas", NoId, k, NoId)
  /\ UNCHANGED <<now, allExpanded, pathVars>>
  /\ effectPending' = Schedules(nodes, nodes')

\* CustomEdge renders an edge whose handles are at source and source + delta
RenderEdge(source, delta, sourcePosition, targetPosition) ==
  /\ drawn' = [made |-> TRUE,
               sourceX |-> source.x, sourceY |-> source.y,
               targetX |-> source.x + delta[1], targetY |-> source.y + delta[2],
               sourcePosition |-> sourcePosition, targetPosition |-> targetPosition,
               path |-> getSmartPath(source.x, source.y,
                                     source.x + delta[1], source.y + delta[2],
                                     sourcePosition, targetPosition)]
  /\ UNCHANGED <<nodes, edges, now, allExpanded, effectPending, lastOp, prev,
                 steps, pathVars, sheetVars, builder, download, storeVars>>

\* exportCanvas: the file goes to the browser's downloads
ExportCanvas ==
  /\ EffectsIdle
  /\ download' = [made |-> TRUE, file |-> exportCanvas(nodes, edges, now),
                  nodes |-> nodes, edges |-> edges]
  /\ Record("exportCanvas", NoId, NoId, NoId)
  /\ UNCHANGED <<nodes, edges, now, allExpanded, effectPending, pathVars,
                 sheetVars, builder, viewVars>>

\* importCanvas with the file that was exported
ImportDownload ==
  /\ EffectsIdle
  /\ download.made
  /\ nodes' = importNodes(nodes, parsedExport(download.file))
  /\ edges' = importEdges(edges, parsedExport(download.file))
  /\ Record("importDownload", NoId, NoId, NoId)
  /\ UNCHANGED <<now, allExpanded, pathVars>>
  /\ effectPending' = Schedules(nodes, nodes')

\* Sheets

\* activeSheet: sheets.find((s) => s.id === activeSheetId) || sheets[0]
activeSheet(shs, id) ==
  IF \E i \in 1..Len(shs) : shs[i].id = id
    THEN shs[CHOOSE i \in 1..Len(shs) :
               shs[i].id = id /\ \A j \in 1..(i - 1) : shs[j].id # id]
    ELSE shs[1]

\* the write-back effect's setSheets updater, run by the timer t
writeBack(shs, t) ==
  [i \in 1..Len(shs) |->
     IF shs[i].id = t.sheetId
       THEN [shs[i] EXCEPT !.nodes = t.nodes, !.edges = t.edges]
       ELSE shs[i]]

\* the render after a handler changed nodes or edges: the write-back effect
\* clears its timer and sets one with the nodes and edges of this render;
\* a handler that returned the arrays it was given causes no render
Edited ==
  /\ timer' = IF nodes' = nodes /\ edges' = edges THEN timer
              ELSE Timer(activeSheetId, nodes', edges')
  /\ UNCHANGED <<sheets, activeSheetId, left, builder, download, viewVars>>

\* the timer fires: setSheets stores its nodes and edges in the sheet it
\* names.  The sync effect then sets the same nodes and edges again and the
\* write-back effect a timer that stores them again; these repeat without
\* changing a node or an edge and are left out.
WriteBack ==
  /\ EffectsIdle
  /\ timer.pending
  /\ sheets' = writeBack(sheets, timer)
  /\ timer' = NoTimer
  /\ Record("writeBack", timer.sheetId, NoId, NoId)
  /\ UNCHANGED <<nodes, edges, now, allExpanded, effectPending, pathVars,
                 activeSheetId, left, builder, download, viewVars>>

\* the render after activeSheetId changed to sheetId: the write-back effect
\* clears the pending timer, the sync effect sets nodes and edges from the
\* active sheet, and the write-back effect of the render that follows sets
\* a timer with them
Activate(shs, sheetId) ==
  /\ activeSheetId' = sheetId
  /\ left' = [s \in DOMAIN left \cup {activeSheetId} |->
                IF s = activeSheetId THEN [nodes |-> nodes, edges |-> edges]
                ELSE left[s]]
  /\ nodes' = activeSheet(shs, sheetId).nodes
  /\ edges' = activeSheet(shs, sheetId).edges
  /\ timer' = Timer(sheetId, nodes', edges')
  /\ effectPending' = FALSE
  /\ UNCHANGED <<allExpanded, pathVars, builder, download, viewVars>>

SwitchSheet(sheetId) ==
  /\ EffectsIdle
  /\ sheetId # activeSheetId
  /\ UNCHANGED <<sheets, now>>
  /\ Activate(sheets, sheetId)
  /\ Record("switchSheet", sheetId, NoId, NoId)

AddSheet(dt) ==
  /\ EffectsIdle
  /\ now + dt <= MaxClock + 1
  /\ now' = now + dt
  /\ Len(sheets) < MaxSheets
  /\ sheets' = Append(sheets, [id |-> now, name |-> SheetName(Len(sheets) + 1),
                               nodes |-> <<>>, edges |-> <<>>])
  /\ Activate(sheets', now)
  /\ Record("addSheet", now, NoId, NoId)

\* Persistence: the three effects of Flow with their timers.  Time is counted
\* in tenths of a second until each pending timer is due.

\* the render after a handler changed nodes or edges: the write-back effect
\* clears its timer and sets one for this render; sheets is the same array,
\* so the auto-save effect does not run
EditedNow ==
  /\ timer' = IF nodes' = nodes /\ edges' = edges THEN timer
              ELSE Timer(activeSheetId, nodes', edges')
  /\ due' = IF nodes' = nodes /\ edges' = edges THEN due ELSE WriteBackDelay
  /\ UNCHANGED <<sheets, activeSheetId, left, builder, download, drawn,
                 saveTimer, stored>>

\* the write-back timer fires: setSheets stores a new array with a new object
\* for the sheet the timer names.  In the render that follows activeSheet is
\* that new object: the sync effect sets nodes (a new array made by map) and
\* edges from it, and the auto-save effect, whose sheets changed, clears its
\* timer and sets one.  In the render after that nodes is a new array: the
\* write-back effect sets its timer again.
WriteBackFires ==
  /\ EffectsIdle
  /\ timer.pending
  /\ due = 0
  /\ sheets' = writeBack(sheets, timer)
  /\ nodes' = activeSheet(sheets', activeSheetId).nodes
  /\ edges' = activeSheet(sheets', activeSheetId).edges
  /\ saveTimer' = SaveTimer(sheets', activeSheetId)
  /\ timer' = Timer(activeSheetId, nodes', edges')
  /\ due' = WriteBackDelay
  /\ Record("writeBack", timer.sheetId, NoId, NoId)
  /\ UNCHANGED <<now, allExpanded, effectPending, pathVars, steps,
                 activeSheetId, left, builder, download, drawn, stored>>

\* the auto-save timer fires: saveSheetsToStorage with the sheets and the
\* activeSheetId of the render that set it
SaveFires ==
  /\ saveTimer.pending
  /\ saveTimer.due = 0
  /\ stored' = [made |-> TRUE, sheets |-> saveTimer.sheets,
                activeSheetId |-> saveTimer.activeSheetId]
  /\ saveTimer' = NoSaveTimer
  /\ UNCHANGED <<nodes, edges, now, allExpanded, effectPending, lastOp, prev,
                 pathVars, steps, sheetVars, builder, download, drawn, due>>

\* a tenth of a second passes while no timer is due
Tick ==
  /\ timer.pending => due > 0
  /\ saveTimer.pending => saveTimer.due > 0
  /\ timer.pending \/ saveTimer.pending
  /\ due' = IF timer.pending THEN due - 1 ELSE due
  /\ saveTimer' = IF saveTimer.pending
                    THEN [saveTimer EXCEPT !.due = saveTimer.due - 1]
                    ELSE saveTimer
  /\ UNCHANGED <<nodes, edges, now, allExpanded, effectPending, lastOp, prev,
                 pathVars, steps, sheetVars, builder, download, drawn, stored>>

\* deleteSheet's newSheets: sheets.filter((s) => s.id !== sheetId)
withoutSheet(shs, sheetId) ==
  FilterIdx(shs, {i \in 1..Len(shs) : shs[i].id # sheetId}, 1)

\* deleteSheet: refused while one sheet is left; when the active sheet goes,
\* the first remaining sheet becomes active.  When no sheet remains,
\* newSheets[0].id throws after setSheets(newSheets) was called: the list is
\* empty and nothing else has changed
DeleteSheet(sheetId) ==
  /\ EffectsIdle
  /\ Record("deleteSheet", sheetId, NoId, NoId)
  /\ UNCHANGED now
  /\ IF Len(sheets) <= 1
       THEN UNCHANGED <<nodes, edges, allExpanded, effectPending, pathVars,
                        sheetVars, builder, download, viewVars>>
       ELSE /\ sheets' = withoutSheet(sheets, sheetId)
            /\ IF activeSheetId = sheetId /\ sheets' # <<>>
                 THEN Activate(sheets', sheets'[1].id)
                 ELSE UNCHANGED <<nodes, edges, allExpanded, effectPending,
                                  pathVars, activeSheetId, timer, left,
                                  builder, download, viewVars>>

\* renameSheet's updater
renamed(shs, sheetId, newName) ==
  [i \in 1..Len(shs) |->
     IF shs[i].id = sheetId THEN [shs[i] EXCEPT !.name = newName] ELSE shs[i]]

\* renameSheet: a renamed entry is a new object; when it is the entry of
\* the active sheet the sync effect runs and sets the stored nodes and edges
RenameSheet(sheetId, newName) ==
  /\ EffectsIdle
  /\ Record("renameSheet", sheetId, NoId, NoId)
  /\ UNCHANGED now
  /\ sheets' = renamed(sheets, sheetId, newName)
  /\ IF sheets # <<>> /\ activeSheet(sheets, activeSheetId).id = sheetId
       THEN Activate(sheets', activeSheetId)
       ELSE UNCHANGED <<nodes, edges, allExpanded, effectPending, pathVars,
                        activeSheetId, timer, left, builder, download, viewVars>>

\* the template field of the builder changes; the memo params follows
SetTemplate(t) ==
  /\ builder' = [builder EXCEPT !.template = t,
                                !.params = extractParams(t, 1, <<>>)]
  /\ UNCHANGED <<nodes, edges, now, allExpanded, effectPending, lastOp, prev,
                 pathVars>>

\* handlePresetSelect
HandlePresetSelect(t) ==
  /\ builder' = [template |-> t, defaultValues |-> NoValues,
                 params |-> extractParams(t, 1, <<>>)]
  /\ UNCHANGED <<nodes, edges, now, allExpanded, effectPending, lastOp, prev,
                 pathVars>>

\* handleDefaultValueChange: one input per parameter
HandleDefaultValueChange(param, value) ==
  /\ param \in Range(builder.params)
  /\ builder' = [builder EXCEPT
                   !.defaultValues = withValue(@, param, value)]
  /\ UNCHANGED <<nodes, edges, now, allExpanded, effectPending, lastOp, prev,
                 pathVars>>

\* handleSave: the button is disabled while the template is blank
HandleSave(dt) ==
  /\ trim(builder.template) # <<>>
  /\ CreateTemplateFromBuilder([template |-> builder.template,
                                values |-> builder.defaultValues], dt)
  /\ builder' = emptyBuilder

\* handleClose
HandleClose ==
  /\ builder' = emptyBuilder
  /\ UNCHANGED <<nodes, edges, now, allExpanded, effectPending, lastOp, prev,
                 pathVars>>

\* copyAllConnected up to the loop; lastOp.b counts the iterations
CopyAllConnected ==
  /\ EffectsIdle
  /\ Record("copyAllConnected", NoId, NoId, 0)
  /\ visited' = {}
  /\ orderedNodes' = <<>>
  /\ IF copyRoots(nodes, edges) = <<>> /\ activeEdges(edges) = <<>>
       THEN pc' = "returned" /\ queue' = <<>>
       ELSE pc' = "loop" /\ queue' = copyRoots(nodes, edges)
  /\ UNCHANGED <<nodes, edges, now, allExpanded, effectPending, clipboard>>

\* copyPathFromNode up to the loop
CopyPathFromNode(startNodeId) ==
  /\ EffectsIdle
  /\ Record("copyPathFromNode", startNodeId, NoId, 0)
  /\ visited' = {}
  /\ orderedNodes' = <<>>
  /\ pc' = "loop"
  /\ queue' = <<startNodeId>>
  /\ UNCHANGED <<nodes, edges, now, allExpanded, effectPending, clipboard>>

\* one iteration of the loop of either handler
CopyStep ==
  /\ pc = "loop"
  /\ queue # <<>>
  /\ LET st == bfsStep([queue |-> queue, visited |-> visited,
                        orderedNodes |-> orderedNodes], nodes, edges)
     IN /\ queue' = st.queue
        /\ visited' = st.visited
        /\ orderedNodes' = st.orderedNodes
  /\ lastOp' = [lastOp EXCEPT !.b = @ + 1]
  /\ UNCHANGED <<nodes, edges, now, allExpanded, effectPending, prev,
                 pc, clipboard>>

\* after the loop: copyAllConnected writes the text, copyPathFromNode
\* writes it when it is not empty
CopyFinish ==
  /\ pc = "loop"
  /\ queue = <<>>
  /\ pc' = "done"
  /\ clipboard' =
       IF lastOp.op = "copyAllConnected" \/ combinedPrompt(orderedNodes) # <<>>
         THEN combinedPrompt(orderedNodes) ELSE clipboard
  /\ UNCHANGED <<nodes, edges, now, allExpanded, effectPending, lastOp, prev,
                 queue, visited, orderedNodes>>

----------------------------------------------------------------------------
\* Specifications.  A run sets a sheet up with the creating handlers (nodes
\* first, then connections in increasing order of their endpoints), makes up
\* to MaxSteps handler calls of any kind on it, and may end with one copy.
\* The sync effect runs whenever it is scheduled.

\* the runs that do not follow the sheet list or the template builder leave
\* them as they are
Untracked == UNCHANGED <<sheetVars, builder, download, viewVars>>

SetUp == steps = 0 /\ steps' = steps /\ Untracked

Use == steps < MaxSteps /\ steps' = steps + 1 /\ Untracked

Final == steps <= MaxSteps /\ steps' = MaxSteps + 1 /\ Untracked

Room(cap) == Len(nodes) < cap

\* set-up adds the connections in increasing order
After(s, t) ==
  IF edges = <<>> THEN TRUE
  ELSE LET e == edges[Len(edges)]
       IN IF e.source = s THEN e.target < t ELSE e.source < s

Effect == SyncAttachedEffect /\ steps' = steps /\ Untracked

Loop == (CopyStep \/ CopyFinish) /\ steps' = steps /\ Untracked

\* the graph handlers: nodes, edges, activation, duplication, layout
NextGraph ==
  \/ /\ SetUp /\ Room(MaxGraphNodes) /\ edges = <<>>
     /\ \E c \in AddChoices : AddNode(c, 1)
  \/ /\ SetUp
     /\ \E s \in NodeIds(nodes), t \in NodeIds(nodes) :
          After(s, t) /\ Connect(s, t)
  \/ Use /\ \E s \in NodeIds(nodes), t \in NodeIds(nodes) : Connect(s, t)
  \/ Use /\ \E i \in 1..Len(edges), n \in NodeIds(nodes) :
              \/ Reconnect(i, n, edges[i].target)
              \/ Reconnect(i, edges[i].source, n)
  \/ Use /\ \E i \in 1..Len(edges) : DeleteEdge(i)
  \/ Use /\ \E i \in 1..Len(edges) : SetActive(i)
  \/ /\ Use /\ Room(MaxGraphNodes)
     /\ \E id \in NodeIds(nodes) \cup {UnknownId}, rnd \in 0..MaxRandom :
          DuplicateNode(id, rnd, 1)
  \/ Use /\ \E id \in NodeIds(nodes) \cup {UnknownId} : DeleteNode(id)
  \/ Use /\ ToggleAllExpanded

SpecGraph == Init /\ [][NextGraph]_vars

\* the grouping and attachment handlers
NextGroup ==
  \/ SetUp /\ Room(MaxNodes) /\ \E c \in AddChoices : AddNode(c, 1)
  \/ SetUp /\ Room(MaxNodes) /\ ImageUpload(1)
  \/ Use /\ \E id \in NodeIds(nodes) \cup {UnknownId} : DeleteNode(id)
  \/ Use /\ \E g \in GroupIds(nodes) : UngroupNodes(g)
  \/ Use /\ \E i \in 1..Len(nodes), pos \in DragPositions,
               hit \in GroupIds(nodes) \cup {NoId} :
              hit # nodes[i].id /\ NodeDragStop(i, pos, hit)
  \/ Use /\ \E i \in 1..Len(nodes) :
              \E t \in AttachTargets(nodes, i) \cup {NoId} : Attach(i, t)
  \/ Effect

SpecGroup == Init /\ [][NextGroup]_vars

\* the copy path over sheets of every shape: cycles, self-loops, branches
\* with inactive edges
NextPath ==
  \/ /\ SetUp /\ Room(MaxNodes) /\ edges = <<>>
     /\ \E c \in AddChoices : AddNode(c, 1)
  \/ /\ SetUp
     /\ \E s \in NodeIds(nodes), t \in NodeIds(nodes) :
          After(s, t) /\ Connect(s, t)
  \/ Use /\ \E i \in 1..Len(edges) : SetActive(i)
  \/ Use /\ \E i \in 1..Len(edges) : DeleteEdge(i)
  \/ Final /\ CopyAllConnected
  \/ Final /\ \E id \in NodeIds(nodes) : CopyPathFromNode(id)
  \/ Loop

SpecPath == Init /\ [][NextPath]_vars

\* the copy path over sheets of every content: the connections run from an
\* older node to a newer one
NextText ==
  \/ /\ SetUp /\ Room(MaxNodes) /\ edges = <<>>
     /\ \E c \in AddChoices : AddNode(c, 1)
  \/ /\ SetUp /\ Room(MaxNodes) /\ edges = <<>>
     /\ \E input \in TextInputs : CreateTemplateFromBuilder(input, 1)
  \/ /\ SetUp /\ edges = <<>>
     /\ nodes[Len(nodes)].type = "prompt"
     /\ nodes[Len(nodes)].content \notin Texts
     /\ \E text \in Texts : SidebarSave(Len(nodes), text)
  \/ /\ SetUp
     /\ \E s \in NodeIds(nodes), t \in NodeIds(nodes) :
          s < t /\ After(s, t) /\ Connect(s, t)
  \/ Final /\ CopyAllConnected
  \/ Final /\ \E id \in NodeIds(nodes) : CopyPathFromNode(id)
  \/ Loop

SpecText == Init /\ [][NextText]_vars

\* one template typed into the builder and copied
NextRender ==
  \/ /\ SetUp /\ Room(2)
     /\ \E input \in RenderInputs : CreateTemplateFromBuilder(input, 1)
  \/ Final /\ \E id \in NodeIds(nodes) :
                FindNode(nodes, id).type = "template" /\ CopyPathFromNode(id)
  \/ Loop

SpecRender == Init /\ [][NextRender]_vars

\* the layout: free nodes and groups connected in every way, then laid out
NextLayout ==
  \/ /\ SetUp /\ Room(MaxNodes) /\ edges = <<>>
     /\ \E c \in AddChoices : AddNode(c, 1)
  \/ /\ SetUp
     /\ \E s \in NodeIds(nodes), t \in NodeIds(nodes) :
          After(s, t) /\ Connect(s, t)
  \/ Use /\ \E i \in 1..Len(edges) : DeleteEdge(i)
  \/ Use /\ ToggleAllExpanded

SpecLayout == Init /\ [][NextLayout]_vars

\* what onConnect can be handed as an endpoint: the id of a node, an id
\* that names none, or nothing
Endpoints == NodeIds(nodes) \cup {UnknownId, NoId}

\* the creating handlers in any order; two calls may fall into one
\* millisecond of Date.now() (dt = 0); a run may end with a connection
\* that lacks an endpoint
NextIds ==
  \/ /\ Use /\ Room(MaxNodes)
     /\ \E c \in AddChoices, dt \in Ticks : AddNode(c, dt)
  \/ Use /\ Room(MaxNodes) /\ \E dt \in Ticks : ImageUpload(dt)
  \/ /\ Use /\ Room(MaxNodes)
     /\ \E dt \in Ticks :
          CreateTemplateFromBuilder([template |-> defaultTemplate,
                                     values |-> NoValues], dt)
  \/ /\ Use /\ Room(MaxNodes)
     /\ \E id \in NodeIds(nodes), rnd \in 0..MaxRandom, dt \in Ticks :
          DuplicateNode(id, rnd, dt)
  \/ Use /\ \E s \in NodeIds(nodes), t \in NodeIds(nodes) : Connect(s, t)
  \/ /\ Final
     /\ \E s \in Endpoints, t \in Endpoints :
          {s, t} \cap {NoId, UnknownId} # {} /\ Connect(s, t)

SpecIds == Init /\ [][NextIds]_vars

\* the colours picked in the sidebar
PickedColors == {"green"}

\* calls with ids that name nothing: on a sheet whose connections may lack
\* an endpoint node, a run ends with a node handler called with an unknown
\* id, or with the buttons of an edge acting again after its removal
NextNoOp ==
  \/ /\ SetUp /\ Room(MaxGraphNodes) /\ edges = <<>>
     /\ \E c \in AddChoices : AddNode(c, 1)
  \/ /\ SetUp
     /\ \E s \in NodeIds(nodes) \cup {UnknownId},
           t \in NodeIds(nodes) \cup {UnknownId} :
          After(s, t) /\ Connect(s, t)
  \/ /\ Use
     /\ \E id \in NodeIds(nodes), color \in PickedColors :
          UpdateNodeColor(id, color)
  \/ Use /\ \E i \in 1..Len(edges) : DeleteEdge(i)
  \/ Final /\ DeleteNode(UnknownId)
  \/ Final /\ \E rnd \in 0..MaxRandom : DuplicateNode(UnknownId, rnd, 1)
  \/ Final /\ \E text \in Texts : UpdateNodeContent(UnknownId, text)
  \/ Final /\ \E color \in PickedColors : UpdateNodeColor(UnknownId, color)
  \/ Final /\ StaleDelete
  \/ Final /\ StaleSetActive

SpecNoOp == Init /\ [][NextNoOp]_vars

SheetIds == {sheets[i].id : i \in 1..Len(sheets)}

SheetStep == steps < MaxSteps /\ steps' = steps + 1

\* the sheets: the active one is edited or replaced by an import, the timer
\* fires or not, another sheet is added or chosen
NextSheets ==
  \/ /\ SheetStep /\ Room(MaxGraphNodes)
     /\ \E c \in AddChoices : AddNode(c, 1) /\ Edited
  \/ /\ SheetStep
     /\ \E s \in NodeIds(nodes), t \in NodeIds(nodes) : Connect(s, t) /\ Edited
  \/ SheetStep /\ \E id \in NodeIds(nodes) : DeleteNode(id) /\ Edited
  \/ SheetStep /\ \E k \in 1..Len(ImportFiles) : ImportCanvas(k) /\ Edited
  \/ SheetStep /\ ExportCanvas
  \/ SheetStep /\ ImportDownload /\ Edited
  \/ SheetStep /\ WriteBack
  \/ SheetStep /\ \E id \in SheetIds : SwitchSheet(id)
  \/ SheetStep /\ AddSheet(1)

SpecSheets == Init /\ [][NextSheets]_vars

\* the sheet tabs: sheets are added (two additions may fall into one
\* millisecond) and chosen, the active one is edited, the timer fires or not
NextTabs ==
  \/ /\ SheetStep /\ Room(MaxGraphNodes)
     /\ \E c \in AddChoices : AddNode(c, 1) /\ Edited
  \/ SheetStep /\ WriteBack
  \/ SheetStep /\ \E id \in SheetIds : SwitchSheet(id)
  \/ SheetStep /\ \E dt \in Ticks : AddSheet(dt)

SpecTabs == Init /\ [][NextTabs]_vars

\* the copy path over sheets with edges whose source or target names no
\* node (onConnect does not look at the nodes, see Endpoints)
NextDangling ==
  \/ /\ SetUp /\ Room(MaxNodes) /\ edges = <<>>
     /\ \E c \in AddChoices : AddNode(c, 1)
  \/ /\ SetUp
     /\ \E s \in NodeIds(nodes) \cup {UnknownId},
           t \in NodeIds(nodes) \cup {UnknownId} :
          After(s, t) /\ Connect(s, t)
  \/ Final /\ CopyAllConnected
  \/ Final /\ \E id \in NodeIds(nodes) : CopyPathFromNode(id)
  \/ Loop

SpecDangling == Init /\ [][NextDangling]_vars

\* the edges are rendered, with handles on every side and at every reach
NextRoute ==
  \E source \in SourcePoints, delta \in Deltas,
     sourcePosition \in Positions, targetPosition \in Positions :
    RenderEdge(source, delta, sourcePosition, targetPosition)

SpecRoute == Init /\ [][NextRoute]_vars

\* the list of sheets: sheets are added (two additions may fall into one
\* millisecond), chosen, renamed and deleted; the timer fires or not
NextSheetList ==
  \/ SheetStep /\ \E dt \in Ticks : AddSheet(dt)
  \/ SheetStep /\ \E id \in SheetIds : SwitchSheet(id)
  \/ SheetStep /\ \E id \in SheetIds : DeleteSheet(id)
  \/ SheetStep /\ \E id \in SheetIds : RenameSheet(id, TypedName)
  \/ SheetStep /\ WriteBack

SpecSheetList == Init /\ [][NextSheetList]_vars

\* groups and their children: nodes are created (two creations may fall
\* into one millisecond), dragged, grouped, ungrouped, duplicated, deleted
\* and laid out
NextNest ==
  \/ /\ SetUp /\ Room(MaxNodes)
     /\ \E c \in AddChoices, dt \in Ticks : AddNode(c, dt)
  \/ Use /\ Room(MaxNodes) /\ \E c \in AddChoices : AddNode(c, 1)
  \/ Use /\ \E i \in 1..Len(nodes), pos \in DragPositions,
               hit \in GroupIds(nodes) \cup {NoId} :
              hit # nodes[i].id /\ NodeDragStop(i, pos, hit)
  \/ Use /\ \E g \in GroupIds(nodes) : UngroupNodes(g)
  \/ /\ Use /\ Room(MaxNodes)
     /\ \E id \in NodeIds(nodes), rnd \in 0..MaxRandom : DuplicateNode(id, rnd, 1)
  \/ Use /\ \E id \in NodeIds(nodes) : DeleteNode(id)
  \/ Use /\ ToggleAllExpanded

SpecNest == Init /\ [][NextNest]_vars

\* the layout of sheets with free nodes, groups and children: nodes of
\* every type are connected, free nodes are dropped on groups, and the
\* sheet is laid out
NextArrange ==
  \/ /\ SetUp /\ Room(MaxNodes) /\ edges = <<>>
     /\ \E c \in AddChoices : AddNode(c, 1)
  \/ /\ SetUp /\ Room(MaxNodes) /\ edges = <<>>
     /\ CreateTemplateFromBuilder([template |-> defaultTemplate,
                                   values |-> NoValues], 1)
  \/ /\ SetUp
     /\ \E s \in NodeIds(nodes), t \in NodeIds(nodes) :
          After(s, t) /\ Connect(s, t)
  \/ Use /\ \E i \in 1..Len(nodes), hit \in GroupIds(nodes) :
              /\ nodes[i].type # "group" /\ nodes[i].parentNode = NoId
              /\ NodeDragStop(i, [x |-> nodes[i].x, y |-> nodes[i].y], hit)
  \/ Use /\ ToggleAllExpanded

SpecArrange == Init /\ [][NextArrange]_vars

\* attached images: an image is uploaded and attached, its anchor is chosen,
\* the nodes are dragged over the canvas; the sync effect runs when it is
\* scheduled
NextAttach ==
  \/ SetUp /\ Room(MaxNodes) /\ ImageUpload(1)
  \/ Use /\ \E i \in 1..Len(nodes), pos \in DragPositions :
              NodeDragStop(i, pos, NoId)
  \/ Use /\ \E i \in 1..Len(nodes) :
              \E t \in AttachTargets(nodes, i) \cup {NoId} : Attach(i, t)
  \/ Use /\ \E i \in 1..Len(nodes), anchorPoint \in AnchorPoints :
              SetAnchorPoint(i, anchorPoint)
  \/ Effect

\* an effect that is scheduled runs
SpecAttach == Init /\ [][NextAttach]_vars /\ WF_vars(Effect)

\* uploads: files of every kind are handed to the upload on sheets with
\* nodes and edges
NextUpload ==
  \/ SetUp /\ Room(MaxGraphNodes) /\ \E c \in AddChoices : AddNode(c, 1)
  \/ /\ SetUp
     /\ \E s \in NodeIds(nodes), t \in NodeIds(nodes) :
          After(s, t) /\ Connect(s, t)
  \/ /\ Use /\ Room(MaxNodes)
     /\ \E k \in 1..Len(UploadFiles) : HandleImageUpload(k, 1)

SpecUpload == Init /\ [][NextUpload]_vars

\* persistence: the sheet is edited now and then while the time passes and
\* the timers of the write-back and auto-save effects fire
NextPersist ==
  \/ /\ SheetStep /\ Room(MaxGraphNodes)
     /\ \E c \in AddChoices : AddNode(c, 1) /\ EditedNow
  \/ SheetStep /\ \E id \in NodeIds(nodes) : DeleteNode(id) /\ EditedNow
  \/ WriteBackFires
  \/ SaveFires
  \/ Tick

\* time passes, and a timer that is due fires
SpecPersist ==
  /\ Init
  /\ [][NextPersist]_vars
  /\ WF_vars(Tick)
  /\ WF_vars(WriteBackFires)
  /\ WF_vars(SaveFires)

\* edit mode: nodes are connected and dropped on groups, and the groups are
\* locked and unlocked from the sidebar and from their own button
NextEdit ==
  \/ /\ SetUp /\ Room(MaxNodes) /\ edges = <<>>
     /\ \E c \in AddChoices : AddNode(c, 1)
  \/ /\ SetUp
     /\ \E s \in NodeIds(nodes), t \in NodeIds(nodes) :
          After(s, t) /\ Connect(s, t)
  \/ Use /\ \E i \in 1..Len(nodes), hit \in GroupIds(nodes) :
              /\ nodes[i].type # "group" /\ nodes[i].parentNode = NoId
              /\ NodeDragStop(i, [x |-> nodes[i].x, y |-> nodes[i].y], hit)
  \/ Use /\ \E g \in GroupIds(nodes), isEditMode \in BOOLEAN :
              ToggleGroupEditMode(g, isEditMode)

SpecEdit == Init /\ [][NextEdit]_vars

\* dragging: nodes are dropped on groups, inside them and at their
\* margins, and the sheet is laid out in between
NextDrag ==
  \/ SetUp /\ Room(MaxNodes) /\ \E c \in AddChoices : AddNode(c, 1)
  \/ Use /\ \E i \in 1..Len(nodes), pos \in FreeDrops,
               hit \in GroupIds(nodes) \cup {NoId} :
              /\ nodes[i].parentNode = NoId /\ hit # nodes[i].id
              /\ NodeDragStop(i, pos, hit)
  \/ Use /\ \E i \in 1..Len(nodes), pos \in DropPositions :
              /\ nodes[i].parentNode # NoId
              /\ NodeDragStop(i, pos, NoId)
  \/ Use /\ ToggleAllExpanded

SpecDrag == Init /\ [][NextDrag]_vars

\* a step of the template builder, and the one that ends its run
BuilderStep ==
  steps < MaxSteps /\ steps' = steps + 1 /\ UNCHANGED <<sheetVars, download, viewVars>>

BuilderFinal ==
  steps <= MaxSteps /\ steps' = MaxSteps + 1 /\ UNCHANGED <<sheetVars, download, viewVars>>

\* the template builder: a template put together, defaults typed, saved
NextBuilder ==
  \/ BuilderStep /\ \E t \in BuilderTemplates : SetTemplate(t)
  \/ BuilderStep /\ \E t \in presetTemplates : HandlePresetSelect(t)
  \/ BuilderStep /\ \E param \in Range(builder.params), value \in BuilderValues :
                      HandleDefaultValueChange(param, value)
  \/ BuilderFinal /\ HandleSave(1)
  \/ BuilderStep /\ HandleClose

SpecBuilder == Init /\ [][NextBuilder]_vars

----------------------------------------------------------------------------
\* Properties

\* the index sets and edge sets the properties speak about
Incoming(eds, t) == {i \in 1..Len(eds) : eds[i].target = t}
ActiveIncoming(eds, t) == {i \in Incoming(eds, t) : eds[i].active # "false"}
Touches(e, id) == e.source = id \/ e.target = id
Ids(seq) == [i \in 1..Len(seq) |-> seq[i].id]

\* C1: in every reachable state, every node is the target of at most one
\* active edge (an edge that stores no flag counts as active).
C1_BranchInvariant ==
  \A i \in 1..Len(edges) :
    Cardinality(ActiveIncoming(edges, edges[i].target)) <= 1

\* C2: after setActive(e), e is active, every other edge with the target of
\* e is inactive, every edge with another target is as active as it was, and
\* the target of e has exactly one active incoming edge.
C2_SetActive ==
  lastOp.op = "setActive" =>
    LET e == edges[lastOp.a]
    IN /\ e.active # "false"
       /\ \A j \in Incoming(edges, e.target) \ {lastOp.a} :
            edges[j].active = "false"
       /\ \A j \in 1..Len(edges) :
            edges[j].target # e.target =>
              (edges[j].active = "false") = (prev.edges[j].active = "false")
       /\ Cardinality(ActiveIncoming(edges, e.target)) = 1

\* C3: after deleteNode(X) no edge has X as its source or target, and the
\* edges that did not touch X are all still there, unchanged and in order.
C3_DeleteNodeEdges ==
  lastOp.op = "deleteNode" =>
    /\ \A i \in 1..Len(edges) : ~Touches(edges[i], lastOp.id)
    /\ edges = SelectSeq(prev.edges, LAMBDA e : ~Touches(e, lastOp.id))

\* deleteNode(X) removed an edge that touched X and kept one that did not
C3_Witness ==
  /\ lastOp.op = "deleteNode"
  /\ \E i \in 1..Len(prev.edges) : Touches(prev.edges[i], lastOp.id)
  /\ edges # <<>>

C5_DeleteGroup ==
  lastOp.op = "deleteNode" =>
    \A i \in 1..Len(prev.nodes) :
      LET old == prev.nodes[i]
      IN old.id # lastOp.id =>
           /\ HasNode(nodes, old.id)
           /\ LET new == FindNode(nodes, old.id)
              IN IF old.parentNode = lastOp.id /\ HasNode(prev.nodes, lastOp.id)
                   THEN LET X == FindNode(prev.nodes, lastOp.id)
                        IN /\ new.parentNode = NoId
                           /\ new.x = X.x + old.x
                           /\ new.y = X.y + old.y
                   ELSE /\ new.parentNode = old.parentNode
                        /\ new.x = old.x
                        /\ new.y = old.y

\* a group with a child was deleted in a sheet that holds another node
C5_Witness ==
  /\ lastOp.op = "deleteNode"
  /\ \E i \in 1..Len(prev.nodes) : prev.nodes[i].parentNode = lastOp.id
  /\ \E i \in 1..Len(prev.nodes) :
       prev.nodes[i].id # lastOp.id /\ prev.nodes[i].parentNode # lastOp.id

\* the ids of the image nodes of nds that are attached to id
AttachedImages(nds, id) ==
  {nds[i].id : i \in {j \in 1..Len(nds) :
                        nds[j].type = "image" /\ nds[j].attachedTo = id}}

\* C6, as the specification has it: when deleteNode(X) has completed, no
\* image node is attached to X.
C6_DeleteClearsAttachedTo ==
  lastOp.op = "deleteNode" => AttachedImages(nodes, lastOp.id) = {}

\* C6, as the code has it: deleteNode(X) leaves attachedTo as it was and
\* makes the attached-image sync effect run; once that effect has run, no
\* image node is attached to X.
C6_EffectClearsAttachedTo ==
  [][/\ (lastOp'.op = "deleteNode" /\ lastOp'.id # NoId) =>
          /\ AttachedImages(nodes', lastOp'.id) = AttachedImages(nodes, lastOp'.id)
          /\ AttachedImages(nodes', lastOp'.id) # {} => effectPending'
     /\ (lastOp.op = "deleteNode" /\ lastOp'.op = "syncEffect") =>
          AttachedImages(nodes', lastOp.id) = {}]_vars

\* the effect that followed deleteNode(X) has detached an image from X
C6_Witness ==
  /\ lastOp.op = "syncEffect"
  /\ ~effectPending
  /\ \E i \in 1..Len(prev.nodes) :
       /\ prev.nodes[i].type = "image"
       /\ prev.nodes[i].attachedTo # NoId
       /\ ~HasNode(prev.nodes, prev.nodes[i].attachedTo)
       /\ nodes[i].attachedTo = NoId

\* C7: the traversal terminates, with or without a start node: its loop
\* makes at most one iteration per node and per edge of the sheet, and no
\* node id appears twice in the list of contributing nodes.
C7_Terminates ==
  pc \in {"loop", "done"} =>
    /\ lastOp.b <= Len(nodes) + Len(edges)
    /\ \A i \in 1..Len(orderedNodes), j \in 1..Len(orderedNodes) :
         orderedNodes[i].id = orderedNodes[j].id => i = j

\* a traversal has finished on a sheet where two contributing nodes lie on
\* a cycle of active edges
C7_Witness ==
  /\ pc = "done"
  /\ \E i \in 1..Len(edges), j \in 1..Len(edges) :
       /\ edges[i].source # edges[i].target
       /\ edges[i].source = edges[j].target
       /\ edges[i].target = edges[j].source
       /\ edges[i].active # "false" /\ edges[j].active # "false"
       /\ {edges[i].source, edges[i].target} \subseteq Range(Ids(orderedNodes))

\* the ids of s, without those in seen and without repeats
RECURSIVE FirstVisits(_, _)
FirstVisits(s, seen) ==
  IF s = <<>> THEN <<>>
  ELSE IF Head(s) \in seen THEN FirstVisits(Tail(s), seen)
  ELSE <<Head(s)>> \o FirstVisits(Tail(s), seen \cup {Head(s)})

\* the targets of the active edges out of id, in edge-list order
Successors(id) ==
  LET es == SelectSeq(edges, LAMBDA e : e.source = id /\ e.active # "false")
  IN [i \in 1..Len(es) |-> es[i].target]

RECURSIVE SuccessorsOfAll(_)
SuccessorsOfAll(level) ==
  IF level = <<>> THEN <<>>
  ELSE Successors(Head(level)) \o SuccessorsOfAll(Tail(level))

\* breadth-first order, level by level
RECURSIVE Levels(_, _)
Levels(level, seen) ==
  IF level = <<>> THEN <<>>
  ELSE level \o Levels(FirstVisits(SuccessorsOfAll(level), seen \cup Range(level)),
                       seen \cup Range(level))

\* a root: not a group, an outgoing active edge, no incoming active edge
IsRoot(n) ==
  /\ n.type # "group"
  /\ \E i \in 1..Len(edges) : edges[i].source = n.id /\ edges[i].active # "false"
  /\ ActiveIncoming(edges, n.id) = {}

\* the ids reachable from S along active edges
RECURSIVE Reachable(_)
Reachable(S) ==
  LET T == S \cup {edges[i].target : i \in {j \in 1..Len(edges) :
                     edges[j].source \in S /\ edges[j].active # "false"}}
  IN IF T = S THEN S ELSE Reachable(T)

\* C8: without a start node the contributing list is the non-group nodes
\* reachable along active edges from a root, in breadth-first order (roots
\* in node-list order, successors in edge-list order); it is empty when no
\* edge is active.
C8_ActivePath ==
  (lastOp.op = "copyAllConnected" /\ pc \in {"done", "returned"}) =>
    LET roots == Ids(SelectSeq(nodes, IsRoot))
        order == Levels(FirstVisits(roots, {}), {})
        isNode(id) == HasNode(nodes, id) /\ FindNode(nodes, id).type # "group"
    IN /\ Ids(orderedNodes) = SelectSeq(order, isNode)
       /\ Range(Ids(orderedNodes)) =
            {id \in Reachable(Range(roots)) : isNode(id)}
       /\ (\A i \in 1..Len(edges) : edges[i].active = "false")
            => orderedNodes = <<>>

\* a copy of the whole path has found two nodes or more on a sheet where an
\* inactive edge leads to a node that does not contribute
C8_Witness ==
  /\ lastOp.op = "copyAllConnected"
  /\ pc = "done"
  /\ Len(orderedNodes) >= 2
  /\ \E i \in 1..Len(edges) :
       /\ edges[i].active = "false"
       /\ edges[i].target \notin Range(Ids(orderedNodes))
       /\ edges[i].source \in Range(Ids(orderedNodes))

\* only white space, or nothing at all
Blank(s) == \A k \in 1..Len(s) : s[k] \in {" ", "\t", "\n", "\f", "\r"}

RECURSIVE BlankLineJoin(_)
BlankLineJoin(list) ==
  IF list = <<>> THEN <<>>
  ELSE IF Len(list) = 1 THEN list[1]
  ELSE BlankLineJoin(SubSeq(list, 1, Len(list) - 1))
         \o <<"\n", "\n">> \o list[Len(list)]

Contributions ==
  [i \in 1..Len(orderedNodes) |->
     IF orderedNodes[i].type = "template"
       THEN render(orderedNodes[i].template, orderedNodes[i].values)
       ELSE orderedNodes[i].content]

\* the text a finished copy has handed to the clipboard: copyPathFromNode
\* hands over nothing when the text is empty
Copied(text) ==
  IF lastOp.op = "copyAllConnected" THEN clipboard = text
  ELSE text # <<>> => clipboard = text

\* C9, as the code has it: the final text is the contributions of the
\* visited non-group nodes, in visitation order, joined by one blank line; a
\* contribution is left out if and only if it is empty or holds nothing but
\* white space.
C9_FinalText ==
  pc = "done" =>
    Copied(BlankLineJoin(SelectSeq(Contributions, LAMBDA c : ~Blank(c))))

\* C9, as the specification has it: a contribution is left out if and only
\* if it is the empty string.
C9_OnlyEmptyLeftOut ==
  pc = "done" =>
    Copied(BlankLineJoin(SelectSeq(Contributions, LAMBDA c : c # <<>>)))

\* a copy has joined two contributions and left out one that holds only
\* white space
C9_Witness ==
  /\ pc = "done"
  /\ \E i \in 1..Len(Contributions) :
       Contributions[i] # <<>> /\ Blank(Contributions[i])
  /\ Len(SelectSeq(Contributions, LAMBDA c : ~Blank(c))) >= 2
  /\ clipboard # <<>>

\* {{name}} stands at position i of s and its name has n characters
IsPlaceholder(s, i, n) ==
  /\ n >= 1
  /\ i + n + 3 <= Len(s)
  /\ s[i] = "{" /\ s[i + 1] = "{"
  /\ \A k \in (i + 2)..(i + n + 1) : s[k] \in WordChars
  /\ s[i + n + 2] = "}" /\ s[i + n + 3] = "}"

\* the text a placeholder is replaced by: the value when it is a string
\* that is not empty, the bare name otherwise
Filled(values, name) ==
  IF name \in DOMAIN values /\ values[name] # <<>> THEN values[name] ELSE name

RECURSIVE Rendered(_, _, _)
\* the template from position i on with every placeholder replaced
Rendered(s, values, i) ==
  IF i > Len(s) THEN <<>>
  ELSE IF \E n \in 1..Len(s) : IsPlaceholder(s, i, n)
    THEN LET n == CHOOSE n \in 1..Len(s) : IsPlaceholder(s, i, n)
         IN Filled(values, SubSeq(s, i + 2, i + n + 1))
              \o Rendered(s, values, i + n + 4)
    ELSE <<s[i]>> \o Rendered(s, values, i + 1)

\* a copy that started at a template node has finished
TemplateCopied ==
  /\ pc = "done"
  /\ Len(orderedNodes) = 1
  /\ orderedNodes[1].type = "template"

\* C10: the text of a template has every placeholder {{name}} replaced by
\* values[name] when that is a string that is not empty and by the bare name
\* otherwise; it never keeps the {{name}} token.
C10_Render ==
  TemplateCopied =>
    LET text == Rendered(orderedNodes[1].template, orderedNodes[1].values, 1)
    IN ~Blank(text) => clipboard = text

\* C10 for the templates whose placeholders name no method of
\* Object.prototype
C10_RenderOwnNames ==
  TemplateCopied =>
    LET s == orderedNodes[1].template
        text == Rendered(s, orderedNodes[1].values, 1)
        inherited == \E i \in 1..Len(s), n \in 1..Len(s) :
                       /\ IsPlaceholder(s, i, n)
                       /\ SubSeq(s, i + 2, i + n + 1) \in ObjectPrototype
    IN (~inherited /\ ~Blank(text)) => clipboard = text

\* the names of the placeholders of s
PlaceholderNames(s) ==
  {SubSeq(s, q[1] + 2, q[1] + q[2] + 1) :
     q \in {r \in (1..Len(s)) \X (1..Len(s)) : IsPlaceholder(s, r[1], r[2])}}

\* where the placeholder {{name}} first stands in s
FirstAt(s, name) ==
  CHOOSE i \in 1..Len(s) :
    /\ IsPlaceholder(s, i, Len(name)) /\ SubSeq(s, i + 2, i + Len(name) + 1) = name
    /\ \A j \in 1..(i - 1) :
         ~(IsPlaceholder(s, j, Len(name))
             /\ SubSeq(s, j + 2, j + Len(name) + 1) = name)

\* C11: the parameters of the builder's template are its distinct
\* placeholder names, each once, in the order of their first occurrence;
\* there are none when the template has no placeholder.
C11_ExtractParams ==
  LET s == builder.template
      params == builder.params
  IN /\ \A j \in 1..Len(params), k \in 1..Len(params) :
          params[j] = params[k] => j = k
     /\ Range(params) = PlaceholderNames(s)
     /\ \A j \in 1..Len(params), k \in 1..Len(params) :
          j < k => FirstAt(s, params[j]) < FirstAt(s, params[k])

\* the builder holds a template with two names, one of them twice
C11_Witness ==
  /\ Len(builder.params) = 2
  /\ Cardinality({i \in 1..Len(builder.template) :
                    \E n \in 1..Len(builder.template) :
                      IsPlaceholder(builder.template, i, n)}) = 3
  /\ builder.params[1] = <<"b">>

\* the free nodes of the layout: neither a group nor inside one
FreeIds(nds) ==
  {nds[i].id : i \in {j \in 1..Len(nds) :
                        nds[j].parentNode = NoId /\ nds[j].type # "group"}}

\* the nodes the breadth-first expansion admitted into a row after the roots
Expanded(nds, eds) ==
  LET roots == layoutRoots(nds, eds)
  IN BuildRows(IF roots # <<>> THEN <<roots>> ELSE <<>>, eds, Range(roots), 1).visited
       \ Range(roots)

\* C12: after the layout, a free node that the breadth-first expansion
\* placed stands in a later row than (below) each of its free sources.
C12_Layering ==
  lastOp.op = "autoLayout" =>
    \A i \in 1..Len(edges) :
      LET u == edges[i].source
          v == edges[i].target
      IN ({u, v} \subseteq FreeIds(nodes) /\ v \in Expanded(prev.nodes, edges))
           => FindNode(nodes, v).y > FindNode(nodes, u).y

\* C13: in every reachable state no two nodes of the sheet share an id and
\* no two edges share an id.
C13_UniqueIds ==
  /\ \A i \in 1..Len(nodes), j \in 1..Len(nodes) :
       nodes[i].id = nodes[j].id => i = j
  /\ \A i \in 1..Len(edges), j \in 1..Len(edges) :
       edges[i].id = edges[j].id => i = j

\* C14: duplicateNode(id) for a node of the sheet adds exactly one node; its
\* id is carried by no node of the sheet, its position is the original's
\* plus (50, 50), its colour is a palette colour other than the original's,
\* every other field equals the original's, and the nodes that were there
\* are unchanged.
C14_DuplicateNode ==
  (lastOp.op = "duplicateNode" /\ HasNode(prev.nodes, lastOp.id)) =>
    LET original == FindNode(prev.nodes, lastOp.id)
        copy == nodes[Len(nodes)]
    IN /\ Len(nodes) = Len(prev.nodes) + 1
       /\ SubSeq(nodes, 1, Len(prev.nodes)) = prev.nodes
       /\ copy.id \notin NodeIds(prev.nodes)
       /\ copy.x = original.x + 50 /\ copy.y = original.y + 50
       /\ copy.color \in Range(colorOptions) /\ copy.color # original.color
       /\ copy = [original EXCEPT !.id = copy.id, !.x = copy.x, !.y = copy.y,
                                  !.color = copy.color]

\* the edge e of the sheet copied for the duplicate newId of id, as far as
\* the endpoints and the colour go
CopyOf(c, e, id, newId, color) ==
  /\ c.source = (IF e.source = id THEN newId ELSE e.source)
  /\ c.target = (IF e.target = id THEN newId ELSE e.target)
  /\ c.color = color

\* C15: duplicateNode(id) leaves the edges of the sheet as they are and
\* adds one edge for each edge that touched id, with id replaced by the id
\* of the new node at each endpoint, the other endpoint kept, and the colour
\* of the new node; it adds no other edge.
C15_DuplicateEdges ==
  (lastOp.op = "duplicateNode" /\ HasNode(prev.nodes, lastOp.id)) =>
    LET copy == nodes[Len(nodes)]
        touching == {i \in 1..Len(prev.edges) : Touches(prev.edges[i], lastOp.id)}
        added == (Len(prev.edges) + 1)..Len(edges)
    IN /\ Len(edges) >= Len(prev.edges)
       /\ SubSeq(edges, 1, Len(prev.edges)) = prev.edges
       /\ Cardinality(added) = Cardinality(touching)
       /\ \E f \in [touching -> added] :
            /\ \A i \in touching, j \in touching : f[i] = f[j] => i = j
            /\ \A i \in touching :
                 CopyOf(edges[f[i]], prev.edges[i], lastOp.id, copy.id, copy.color)

\* a node was duplicated that an edge entered from another node, on a sheet
\* with an edge that did not touch it
C15_Witness ==
  /\ lastOp.op = "duplicateNode" /\ HasNode(prev.nodes, lastOp.id)
  /\ \E i \in 1..Len(prev.edges) :
       prev.edges[i].target = lastOp.id /\ prev.edges[i].source # lastOp.id
  /\ \E i \in 1..Len(prev.edges) : ~Touches(prev.edges[i], lastOp.id)
  /\ Len(edges) = Len(prev.edges) + 1

\* C16: onConnect with a source or a target that is not the id of a node
\* of the sheet adds no edge and leaves nodes and edges as they are.
C16_CreateEdge ==
  (lastOp.op = "connect"
     /\ ~({lastOp.a, lastOp.b} \subseteq NodeIds(prev.nodes))) =>
    nodes = prev.nodes /\ edges = prev.edges

\* C17: deleteNode, updateNode and duplicateNode with an id that names no
\* node of the sheet, and deleteEdge with an id that names no edge, leave
\* the nodes and the edges as they are.
C17_UnknownId ==
  (\/ /\ lastOp.op \in {"deleteNode", "updateNode", "duplicateNode"}
      /\ lastOp.id \notin NodeIds(prev.nodes)
   \/ lastOp.op = "staleDelete") =>
    nodes = prev.nodes /\ edges = prev.edges

\* C18: the activation of an edge that is no longer in the sheet changes
\* the active flag of no edge.
C18_StaleSetActive ==
  lastOp.op = "staleSetActive" =>
    /\ Len(edges) = Len(prev.edges)
    /\ \A i \in 1..Len(edges) : edges[i].active = prev.edges[i].active

\* the stored sheet with the id s
SheetOf(s) == activeSheet(sheets, s)

\* C19: every sheet that was switched away from holds the nodes and edges
\* it had at that moment, edits made just before the switch included.
C19_SwitchKeepsGraph ==
  \A s \in DOMAIN left :
    s # activeSheetId =>
      SheetOf(s).nodes = left[s].nodes /\ SheetOf(s).edges = left[s].edges

\* a file that is not JSON, or JSON without nodes or without edges
Malformed(file) == ~file.parses \/ ~file.hasNodes \/ ~file.hasEdges

\* C20: importCanvas with a malformed file leaves the nodes and the edges
\* of the sheet as they are.
C20_MalformedImport ==
  (lastOp.op = "importCanvas" /\ Malformed(ImportFiles[lastOp.a])) =>
    nodes = prev.nodes /\ edges = prev.edges

\* C21: importing the exported file gives the sheet the nodes and the edges
\* that were exported, also when there were no nodes or no edges.
C21_RoundTrip ==
  lastOp.op = "importDownload" =>
    nodes = download.nodes /\ edges = download.edges

\* a file exported from a sheet without edges was imported into a sheet
\* that had an edge and other nodes
C21_Witness ==
  /\ lastOp.op = "importDownload"
  /\ download.edges = <<>> /\ prev.edges # <<>>
  /\ download.nodes # prev.nodes

\* C22: in every reachable state no group has a parent group.
C22_NoNesting ==
  \A i \in 1..Len(nodes) : nodes[i].type = "group" => nodes[i].parentNode = NoId

\* C23: after the layout, a free node that no edge enters from a free node
\* (its incoming edges, if any, come from groups, children or ids that name
\* no node) stands in the first row, at y = 100.
C23_FreeAdjacency ==
  lastOp.op = "autoLayout" =>
    \A v \in FreeIds(nodes) :
      (\A i \in Incoming(edges, v) : edges[i].source \notin FreeIds(nodes))
        => FindNode(nodes, v).y = 100

\* the free nodes the layout puts into a row of the expansion: the roots
\* and the nodes admitted after them
InExpansionRows(nds, eds) ==
  FreeIds(nds) \cap (Range(layoutRoots(nds, eds)) \cup Expanded(nds, eds))

C25_LayoutSizes ==
  lastOp.op = "autoLayout" =>
    \A i \in 1..Len(nodes) :
      /\ nodes[i].isExpanded = allExpanded
      /\ nodes[i].w = getNodeSize(nodes[i], allExpanded).width
      /\ nodes[i].h = getNodeSize(nodes[i], allExpanded).height

\* the rows of free nodes the layout places, top to bottom: the ids of each
\* row that name a free node, in row order, rows without one left out
PlacedRows(nds, eds) ==
  LET rows == layoutRows(nds, eds)
      kept == [k \in 1..Len(rows) |->
                 FilterIdx(rows[k], {i \in 1..Len(rows[k]) :
                                       rows[k][i] \in FreeIds(nds)}, 1)]
  IN FilterIdx(kept, {k \in 1..Len(kept) : kept[k] # <<>>}, 1)

\* the box the layout gives a node: its position and the size of its type
\* and state
Box(node, newExpanded) ==
  [left |-> node.x, top |-> node.y,
   right |-> node.x + getNodeSize(node, newExpanded).width,
   bottom |-> node.y + getNodeSize(node, newExpanded).height]

Apart(p, q) ==
  IF p.right <= q.left THEN TRUE
  ELSE IF q.right <= p.left THEN TRUE
  ELSE IF p.bottom <= q.top THEN TRUE
  ELSE q.bottom <= p.top

C27_LayoutFrame ==
  lastOp.op = "autoLayout" =>
    /\ edges = prev.edges
    /\ \A i \in 1..Len(prev.nodes) :
         prev.nodes[i].parentNode # NoId =>
           /\ FindNode(nodes, prev.nodes[i].id).x = prev.nodes[i].x
           /\ FindNode(nodes, prev.nodes[i].id).y = prev.nodes[i].y
           /\ FindNode(nodes, prev.nodes[i].id).parentNode = prev.nodes[i].parentNode

\* a sheet with a child node and an edge was laid out
C27_Witness ==
  /\ lastOp.op = "autoLayout"
  /\ edges # <<>>
  /\ \E i \in 1..Len(prev.nodes) : prev.nodes[i].parentNode # NoId

\* the node a drag ended on, before and after the handler ran
DraggedBefore == FindNode(prev.nodes, lastOp.id)
DraggedAfter == FindNode(nodes, lastOp.id)

\* a child was dragged whose group is on the sheet
ChildDragged ==
  /\ lastOp.op = "dragStop"
  /\ DraggedBefore.type # "group"
  /\ DraggedBefore.parentNode # NoId
  /\ HasNode(prev.nodes, DraggedBefore.parentNode)

\* the drag ended beyond the margin of the group: more than 50 to the left
\* of or above it, or more than 20 beyond its width or height
BeyondMargin(group, x, y) ==
  \/ x < -50
  \/ x > (IF group.w # 0 THEN group.w ELSE 300) + 20
  \/ y < -50
  \/ y > (IF group.h # 0 THEN group.h ELSE 200) + 20

FreeDragged ==
  /\ lastOp.op = "dragStop"
  /\ DraggedBefore.type # "group"
  /\ DraggedBefore.parentNode = NoId

\* C29: a free node that is not a group and was dropped on one group is a
\* child of that group afterwards, at (max(20, x - group.x),
\* max(60, y - group.y)), and the group is expanded; a free node dropped on
\* no group is still free, at the position it was dropped at.
C29_DragIn ==
  FreeDragged =>
    IF lastOp.hit = NoId
      THEN DraggedAfter = [DraggedBefore EXCEPT !.x = lastOp.a, !.y = lastOp.b]
      ELSE LET group == FindNode(prev.nodes, lastOp.hit)
           IN /\ DraggedAfter.parentNode = lastOp.hit
              /\ DraggedAfter.x = (IF lastOp.a - group.x > 20
                                     THEN lastOp.a - group.x ELSE 20)
              /\ DraggedAfter.y = (IF lastOp.b - group.y > 60
                                     THEN lastOp.b - group.y ELSE 60)
              /\ FindNode(nodes, lastOp.hit).isExpanded

\* a free node was dropped on a collapsed group, to the right of and below
\* the group's corner
C29_Witness ==
  /\ FreeDragged
  /\ lastOp.hit # NoId
  /\ ~FindNode(prev.nodes, lastOp.hit).isExpanded
  /\ DraggedAfter.x > 20
  /\ DraggedAfter.y > 60

\* the entry of the sheet list that is shown and edited
ActiveEntry ==
  CHOOSE i \in 1..Len(sheets) :
    sheets[i].id = activeSheetId /\ \A j \in 1..(i - 1) : sheets[j].id # activeSheetId

\* C30: sheets are independent: whatever step is taken, an edit, a switch,
\* an addition or the firing of the write-back timer, no sheet leaves the
\* list, and the only entry of the list whose nodes or edges change is the
\* entry of the sheet that is active and was active when the timer was set.
C30_SheetsIndependent ==
  [][/\ Len(sheets') >= Len(sheets)
     /\ \A i \in 1..Len(sheets) :
          sheets'[i] # sheets[i] =>
            /\ timer.pending
            /\ timer.sheetId = activeSheetId
            /\ i = ActiveEntry]_vars

\* C31: the list of sheets is never empty, no two of its sheets share an
\* id, and activeSheetId is the id of exactly one sheet of the list.
C31_OneActiveSheet ==
  /\ sheets # <<>>
  /\ \A i \in 1..Len(sheets), j \in 1..Len(sheets) :
       sheets[i].id = sheets[j].id => i = j
  /\ Cardinality({i \in 1..Len(sheets) : sheets[i].id = activeSheetId}) = 1

\* the edges whose source and target name nodes of the sheet
SoundEdges(nds, eds) ==
  FilterIdx(eds, {i \in 1..Len(eds) :
                    HasNode(nds, eds[i].source) /\ HasNode(nds, eds[i].target)}, 1)

RECURSIVE Traversal(_, _, _)
\* the nodes the loop collects from the state st on
Traversal(st, nds, eds) ==
  IF st.queue = <<>> THEN st.orderedNodes
  ELSE Traversal(bfsStep(st, nds, eds), nds, eds)

\* the text the copy started by lastOp produces on the sheet nds, eds;
\* copied is false when copyAllConnected returns before its loop
PathText(nds, eds) ==
  LET start == IF lastOp.op = "copyAllConnected" THEN copyRoots(nds, eds)
               ELSE <<lastOp.id>>
  IN [copied |-> ~(/\ lastOp.op = "copyAllConnected"
                   /\ copyRoots(nds, eds) = <<>>
                   /\ activeEdges(eds) = <<>>),
      text |-> combinedPrompt(Traversal([queue |-> start, visited |-> {},
                                         orderedNodes |-> <<>>], nds, eds))]

\* C32: an edge whose source or target names no node of the sheet has no
\* influence on the copied text: a copy ends as it would end on the sheet
\* without these edges.
C32_DanglingIgnored ==
  /\ pc = "returned" => ~PathText(nodes, SoundEdges(nodes, edges)).copied
  /\ pc = "done" =>
       /\ PathText(nodes, SoundEdges(nodes, edges)).copied
       /\ clipboard = PathText(nodes, SoundEdges(nodes, edges)).text

\* C33: a node is marked as a path root exactly when it is not a group, has
\* an outgoing active edge and has no incoming active edge, that is, exactly
\* when copyAllConnected seeds its traversal with it.
C33_PathRoot ==
  \A i \in 1..Len(nodes) :
    isPathRoot(nodes[i], edges) <=>
      /\ nodes[i].type # "group"
      /\ \E k \in 1..Len(edges) : IsActive(edges[k]) /\ edges[k].source = nodes[i].id
      /\ \A k \in 1..Len(edges) : IsActive(edges[k]) => edges[k].target # nodes[i].id

\* the commands of the path last rendered
Commands == [i \in 1..Len(drawn.path) |-> drawn.path[i].cmd]

\* the edge last rendered: from source to target, and its length squared
DrawnDeltaX == drawn.targetX - drawn.sourceX
DrawnDeltaY == drawn.targetY - drawn.sourceY
DrawnSquare == DrawnDeltaX * DrawnDeltaX + DrawnDeltaY * DrawnDeltaY

DrawnBackward ==
  /\ drawn.sourcePosition = "bottom"
  /\ drawn.targetPosition = "top"
  /\ DrawnDeltaY < 0

\* the control point of a path that is one quadratic
Control == drawn.path[2].points[1]

\* C34: the path of an edge is one quadratic with its control point level
\* with the middle of the edge when the handles are less than 100 apart;
\* else the two cubics around the side when the source faces down, the
\* target faces up and the target is above; else one quadratic arc with its
\* control point at least 60 below the lower handle when the handles are
\* less than 50 apart in height; else one cubic.
C34_CurveKind ==
  drawn.made =>
    IF DrawnSquare < 100 * 100
      THEN /\ Commands = <<"M", "Q">>
           /\ Control.y = 10 * (drawn.sourceY + drawn.targetY)
    ELSE IF DrawnBackward
      THEN Commands = <<"M", "C", "C">>
    ELSE IF Abs(DrawnDeltaY) < 50
      THEN /\ Commands = <<"M", "Q">>
           /\ Control.x = 10 * (drawn.sourceX + drawn.targetX)
           /\ Control.y >= 20 * (Max(drawn.sourceY, drawn.targetY) + 60)
    ELSE Commands = <<"M", "C">>

\* an edge was rendered whose source faces down and whose target faces up
\* and lies above the source, at least 100 away and less than 50 higher
C34_Witness ==
  /\ drawn.made
  /\ DrawnSquare >= 100 * 100
  /\ DrawnBackward
  /\ Abs(DrawnDeltaY) < 50
  /\ Commands = <<"M", "C", "C">>

\* C35: the control point of the quadratic of an edge shorter than 100 is
\* the middle of the edge moved at a right angle to the edge by
\* max(30, 0.3 * dist), to the side opposite to the sign of dx; it is never
\* on the line through source and target.
C35_ShortEdge ==
  (drawn.made /\ DrawnSquare < 100 * 100) =>
    LET shiftX == Control.x - 10 * (drawn.sourceX + drawn.targetX)
        shiftY == Control.y - 10 * (drawn.sourceY + drawn.targetY)
    IN /\ Commands = <<"M", "Q">>
       /\ shiftX * DrawnDeltaX + shiftY * DrawnDeltaY = 0
       /\ shiftX * shiftX + shiftY * shiftY = (20 * 30) * (20 * 30)
       /\ DrawnDeltaX > 0 => shiftX < 0
       /\ DrawnDeltaX < 0 => shiftX > 0
       /\ shiftX * DrawnDeltaY - shiftY * DrawnDeltaX # 0

Saved ==
  /\ stored.made
  /\ stored.sheets = sheets
  /\ stored.activeSheetId = activeSheetId

\* C37: the input stops after a bounded number of edits; from then on the
\* debounced save fires at some time and what it stores is the sheets and
\* the active sheet as they are.
C37_SaveProgress == <>Saved

\* C38: in every reachable state the parentNode of a node is the id of a
\* group of the sheet.
C38_ParentValid ==
  \A i \in 1..Len(nodes) :
    nodes[i].parentNode # NoId =>
      \E j \in 1..Len(nodes) :
        nodes[j].id = nodes[i].parentNode /\ nodes[j].type = "group"

\* a node inside a group was duplicated: the copy is inside the group too
C38_Witness ==
  /\ lastOp.op = "duplicateNode"
  /\ Len(nodes) = Len(prev.nodes) + 1
  /\ nodes[Len(nodes)].parentNode # NoId
  /\ \E i \in 1..Len(prev.nodes) :
       /\ nodes[i].id = lastOp.id
       /\ nodes[i].parentNode = nodes[Len(nodes)].parentNode

\* the attached images whose parent exists are at their anchors, within 1
Follows ==
  \A i \in 1..Len(nodes) :
    (nodes[i].type = "image" /\ nodes[i].attachedTo # NoId
       /\ HasNode(nodes, nodes[i].attachedTo)) =>
      LET anchorPos == calculateAnchorPosition(FindNode(nodes, nodes[i].attachedTo),
                                               nodes[i].anchorPoint)
      IN /\ Abs(nodes[i].x - anchorPos.x) <= 1
         /\ Abs(nodes[i].y - anchorPos.y) <= 1

\* C39: after a node was dragged, after an image was attached and after its
\* anchor was chosen, every attached image is at some time within 1 of the
\* anchor position of its parent (the offset of an image is 0).
C39_ImageFollows ==
  (lastOp.op \in {"dragStop", "attach", "anchorPoint"}) ~> Follows

\* the file of the last upload
Uploaded == UploadFiles[lastOp.a]

\* C40: an upload leaves the edges as they are; with no file, with a type
\* other than PNG, JPEG, GIF and WebP, with more than 5 MB, or with a file
\* that is not read or not decoded it leaves the nodes as they are; with
\* any other file it appends one image node.
C40_RejectedImage ==
  lastOp.op = "handleImageUpload" =>
    /\ edges = prev.edges
    /\ IF \/ ~Uploaded.present
          \/ Uploaded.type \notin {"image/png", "image/jpeg", "image/gif", "image/webp"}
          \/ Uploaded.size > 5 * 1024 * 1024
          \/ ~Uploaded.readable
          \/ ~Uploaded.decodable
         THEN nodes = prev.nodes
         ELSE /\ Len(nodes) = Len(prev.nodes) + 1
              /\ SubSeq(nodes, 1, Len(prev.nodes)) = prev.nodes
              /\ nodes[Len(nodes)].type = "image"

\* a PNG of one byte more than 5 MB that reads and decodes was handed to
\* the upload on a sheet with an edge
C40_Witness ==
  /\ lastOp.op = "handleImageUpload"
  /\ Uploaded.present /\ Uploaded.type = "image/png"
  /\ Uploaded.readable /\ Uploaded.decodable
  /\ Uploaded.size = 5 * 1024 * 1024 + 1
  /\ edges # <<>>
  /\ nodes = prev.nodes

====
